---------------------------- MODULE Spec2Model ----------------------------
(***************************************************************************)
(* Model of uatu's permission gate (uatu/permissions.py), of the command   *)
(* allowlist it consults (uatu/allowlist.py), of the event bus             *)
(* (uatu/events/bus.py), of the investigation pipeline of watch mode       *)
(* (uatu/watcher/async_handlers.py, uatu/watcher/investigator.py), of the  *)
(* anomaly detector (uatu/watcher/detector.py), of the signal watchers     *)
(* (uatu/watcher/async_watchers.py), of the orchestrator that runs them    *)
(* (uatu/watcher/async_core.py), of the event logger and the rate limiter  *)
(* behind the bus, and of the observation loop of the legacy watcher       *)
(* (uatu/watcher/core.py).                                                 *)
(*                                                                         *)
(* Python strings are modelled as sequences of one-character strings, so   *)
(* that str.split, str.strip, str.startswith, str.lower and re.search are  *)
(* computed character by character as the interpreter computes them.       *)
(***************************************************************************)
EXTENDS Integers, Sequences, FiniteSets, TLC

VARIABLES
    settings,          \* Settings read by get_settings(): the three safety flags
    approval_callback, \* PermissionHandler.get_approval_callback is set (TRUE) or None (FALSE)
    allowlist,         \* AllowlistManager.allowlist["commands"], in list order
    file,              \* contents of allowlist.json
    calls,             \* the pre_tool_use_hook coroutines, one record per call slot
    lastOp,            \* the last direct AllowlistManager call, what it returned and logged
    oserrors,          \* writes of allowlist.json that failed so far
    peer,              \* a second AllowlistManager over the same allowlist.json
    subscribers,       \* EventBus.subscribers: topic -> list of handlers
    pub,               \* the EventBus.publish call in flight and its handler tasks
    min_severity,      \* InvestigationHandler.min_severity
    arrived,           \* the events on_anomaly was called with, in call order
    investigation_queue, \* InvestigationHandler.investigation_queue
    investigations,    \* the _investigate_and_display tasks start() created
    cache,             \* InvestigationCache.cache: fingerprint -> entry
    provider_calls,    \* calls of claude_agent_sdk.query made by investigate
    audit,             \* the records appended to investigations.jsonl
    now,               \* wall clock, in hours
    state,             \* WatcherState: baseline, current and history
    detected,          \* the last detect_anomalies call: its snapshot and what it returned
    watchers,          \* the signal watchers: name -> fields and position of start()
    worker,            \* position of InvestigationHandler.start() as a task of the group
    orch,              \* AsyncWatcher.start(): its position and the stop calls made
    limiter,           \* RateLimiter: its clock, event_times and the notices it printed
    logger             \* EventLogger: the events on_event was called with and events.jsonl

peerVars == <<peer>>
handlerVars == <<limiter, logger>>
busVars == <<subscribers, pub>>
gateVars == <<settings, approval_callback, allowlist, file, calls, lastOp, oserrors>>
pipeVars == <<min_severity, arrived, investigation_queue, investigations, cache,
              provider_calls, audit, now>>
detectVars == <<state, detected>>
taskVars == <<watchers, worker, orch>>
watchVars == <<pipeVars, detectVars, taskVars>>
vars == <<settings, approval_callback, allowlist, file, calls, lastOp, oserrors,
          peerVars, handlerVars, busVars, watchVars>>

(***************************************************************************)
(* Bounds                                                                  *)
(***************************************************************************)
MaxEntries == 2     \* entries the in-memory allowlist may hold
MaxCalls == 2       \* hook coroutines that may be in flight at once (SpecConc)
MaxOSErrors == 1    \* writes of allowlist.json that may fail in one run
MaxSubs == 2        \* handlers one topic of the event bus may list
MaxEvents == 2      \* events on_anomaly is called with in one run
MaxTasks == 4       \* investigation tasks created in one run
MaxHours == 2       \* hours the wall clock advances in one run
MaxCount == 2       \* largest count a cache entry reaches by direct set calls
MaxHistory == 6     \* WatcherState.max_history of the model
MaxUsed == 5        \* largest memory_used_mb a sample reports
MaxIterations == 2  \* iterations the loop of a watcher begins in one run
MaxPublished == 3   \* events the watchers publish in one run of the handlers
MaxPerMinute == 1   \* RateLimiter.max_events of the model
MaxClock == 3       \* half minutes the clock of the rate limiter advances
SamplesNeeded == 2  \* samples Watcher._establish_baseline takes (baseline_duration * 60 // interval)

(***************************************************************************)
(* Characters and strings                                                  *)
(***************************************************************************)
UpperCase == <<"A","B","C","D","E","F","G","H","I","J","K","L","M",
               "N","O","P","Q","R","S","T","U","V","W","X","Y","Z">>
LowerCase == <<"a","b","c","d","e","f","g","h","i","j","k","l","m",
               "n","o","p","q","r","s","t","u","v","w","x","y","z">>
Digits == {"0","1","2","3","4","5","6","7","8","9"}

\* str.isspace for the ASCII range: what str.split() and str.strip() drop
Whitespace == {" ", "\t", "\n", "\r", "\f"}

IsSpace(ch) == ch \in Whitespace

\* the regex class \w for the ASCII range
IsWordChar(ch) ==
    \/ \E k \in 1..26 : ch = UpperCase[k] \/ ch = LowerCase[k]
    \/ ch \in Digits
    \/ ch = "_"

\* str.lower on one character
Lower(ch) ==
    IF \E k \in 1..26 : ch = UpperCase[k]
    THEN LowerCase[CHOOSE k \in 1..26 : ch = UpperCase[k]]
    ELSE ch

\* str.lower
LowerSeq(s) == [i \in 1..Len(s) |-> Lower(s[i])]

\* p occurs in t starting at index i
OccursAt(t, p, i) ==
    /\ i >= 1
    /\ i + Len(p) - 1 <= Len(t)
    /\ SubSeq(t, i, i + Len(p) - 1) = p

\* the Python test `p in t`
Contains(t, p) == \E i \in 1..(Len(t) + 1) : OccursAt(t, p, i)

\* `not command or not command.strip()`
IsBlank(command) == \A i \in 1..Len(command) : IsSpace(command[i])

(***************************************************************************)
(* Regular expressions of the shape  first.*rest  with an optional         *)
(* trailing \b: every entry of SUSPICIOUS_PATTERNS has this shape (a plain  *)
(* literal has an empty rest and matches as first alone).                  *)
(***************************************************************************)
Lit(s) == [first |-> s, rest |-> <<>>, gap |-> FALSE, boundary |-> FALSE]
Gap(a, b) == [first |-> a, rest |-> b, gap |-> TRUE, boundary |-> FALSE]
GapB(a, b) == [first |-> a, rest |-> b, gap |-> TRUE, boundary |-> TRUE]

\* \b between positions k and k+1 of t
WordBoundaryAfter(t, k) ==
    LET before == k >= 1 /\ k <= Len(t) /\ IsWordChar(t[k])
        after == k + 1 <= Len(t) /\ IsWordChar(t[k + 1])
    IN before # after

\* ReSearch without re.IGNORECASE
ReSearch_CaseSensitive(pat, text) ==
    \E i \in 1..(Len(text) + 1) :
      /\ OccursAt(text, pat.first, i)
      /\ \E j \in (i + Len(pat.first))..(Len(text) + 1) :
           /\ pat.gap \/ j = i + Len(pat.first)
           /\ OccursAt(text, pat.rest, j)
           /\ \A k \in (i + Len(pat.first))..(j - 1) : text[k] # "\n"
           /\ pat.boundary => WordBoundaryAfter(text, j + Len(pat.rest) - 1)

\* re.search(pat, text, re.IGNORECASE) is not None; '.' matches any
\* character but a newline
ReSearch(pat, text) ==
    LET t == LowerSeq(text)
    IN \E i \in 1..(Len(t) + 1) :
         /\ OccursAt(t, pat.first, i)
         /\ \E j \in (i + Len(pat.first))..(Len(t) + 1) :
              /\ pat.gap \/ j = i + Len(pat.first)
              /\ OccursAt(t, pat.rest, j)
              /\ \A k \in (i + Len(pat.first))..(j - 1) : t[k] # "\n"
              /\ pat.boundary => WordBoundaryAfter(t, j + Len(pat.rest) - 1)

(***************************************************************************)
(* AllowlistManager class constants                                        *)
(***************************************************************************)
SAFE_BASE_COMMANDS ==
    { <<"t","o","p">>, <<"p","s">>, <<"d","f">>, <<"f","r","e","e">>,
      <<"u","p","t","i","m","e">>, <<"v","m","_","s","t","a","t">>,
      <<"v","m","s","t","a","t">>, <<"i","o","s","t","a","t">>,
      <<"n","e","t","s","t","a","t">>, <<"l","s","o","f">>,
      <<"w","h","o">>, <<"w">>, <<"l","a","s","t">>,
      <<"d","m","e","s","g">>,
      <<"j","o","u","r","n","a","l","c","t","l">> }

BLOCKED_NETWORK_COMMANDS ==
    { <<"c","u","r","l">>, <<"w","g","e","t">>, <<"n","c">>,
      <<"s","s","h">>, <<"s","c","p">>, <<"r","s","y","n","c">>,
      <<"f","t","p">>, <<"t","e","l","n","e","t">> }

SUSPICIOUS_PATTERNS ==
    << Gap(<<"|">>, <<"c","u","r","l">>),
       Gap(<<"|">>, <<"w","g","e","t">>),
       GapB(<<"|">>, <<"n","c">>),
       Gap(<<"|">>, <<"s","s","h">>),
       Gap(<<"g","r","e","p">>, <<"p","a","s","s","w","o","r","d">>),
       Gap(<<"g","r","e","p">>, <<"s","e","c","r","e","t">>),
       Gap(<<"g","r","e","p">>, <<"k","e","y">>),
       Lit(<<"b","a","s","e","6","4">>),
       Lit(<<"x","x","d">>),
       Lit(<<"$","(">>) >>

(***************************************************************************)
(* AllowlistManager: pure parts                                            *)
(***************************************************************************)
\* get_base_command without the split: the whole command
get_base_command_NoSplit(command) ==
    IF IsBlank(command) THEN <<>> ELSE command

\* get_base_command: command.split()[0], or "" for an empty or blank command
get_base_command(command) ==
    IF IsBlank(command) THEN <<>>
    ELSE LET start == CHOOSE i \in 1..Len(command) :
                        /\ ~IsSpace(command[i])
                        /\ \A k \in 1..(i - 1) : IsSpace(command[k])
             stop == CHOOSE j \in start..Len(command) :
                        /\ \A k \in start..j : ~IsSpace(command[k])
                        /\ j = Len(command) \/ IsSpace(command[j + 1])
         IN SubSeq(command, start, stop)

\* EntryMatches with a "pattern" entry that matches the equal command only
EntryMatches_PatternEqualOnly(entry, command) ==
    \/ /\ entry.type = "base"
       /\ get_base_command(command) = entry.pattern
    \/ /\ entry.type \in {"exact", "pattern"}
       /\ command = entry.pattern

\* one iteration of the loop of is_allowed
EntryMatches(entry, command) ==
    \/ /\ entry.type = "base"
       /\ get_base_command(command) = entry.pattern
    \/ /\ entry.type = "exact"
       /\ command = entry.pattern
    \/ /\ entry.type = "pattern"
       /\ \/ command = entry.pattern
          \/ OccursAt(command, entry.pattern \o <<" ">>, 1)

\* is_allowed
is_allowed(commands, command) ==
    /\ ~IsBlank(command)
    /\ \E i \in 1..Len(commands) : EntryMatches(commands[i], command)

\* ResolveEntry without the SAFE_BASE_COMMANDS branch
ResolveEntry_AlwaysExact(command, entry_type) ==
    [pattern |-> command, type |-> IF entry_type = "auto" THEN "exact" ELSE entry_type]

\* add_command, type selection: entry_type None is written "auto"
ResolveEntry(command, entry_type) ==
    IF entry_type = "auto"
    THEN IF get_base_command(command) \in SAFE_BASE_COMMANDS
         THEN [pattern |-> get_base_command(command), type |-> "base"]
         ELSE [pattern |-> command, type |-> "exact"]
    ELSE [pattern |-> command, type |-> entry_type]

\* add_command without its "Check if already exists" loop
AlreadyExists_Never(commands, entry) == FALSE

\* add_command, "Check if already exists"
AlreadyExists(commands, entry) ==
    \E i \in 1..Len(commands) :
        commands[i].pattern = entry.pattern /\ commands[i].type = entry.type

\* add_command: the list after the call (the ValueError case is the caller's)
AddedCommands(commands, command, entry_type) ==
    LET entry == ResolveEntry(command, entry_type)
    IN IF AlreadyExists(commands, entry) THEN commands
       ELSE Append(commands, entry)

(***************************************************************************)
(* Inputs: tool names, commands and URLs the agent may send                *)
(***************************************************************************)
ToolBash == <<"B","a","s","h">>
ToolMcpBash == <<"m","c","p","_","_","B","A","S","H">>
ToolWebFetch == <<"W","e","b","F","e","t","c","h">>
ToolWebSearch == <<"W","e","b","S","e","a","r","c","h">>
ToolRead == <<"R","e","a","d">>

\* Tools.NETWORK_TOOLS
NETWORK_TOOLS == {ToolWebFetch, ToolWebSearch}

BashToolNames == {ToolBash, ToolMcpBash}
OtherToolNames == {ToolWebFetch, ToolWebSearch, ToolRead}

CmdEmpty == <<>>
CmdBlank == <<" ">>
CmdTop == <<"t","o","p">>
CmdTopB == <<"t","o","p"," ","-","b">>
CmdLs == <<"l","s">>
CmdLsL == <<"l","s"," ","-","l">>
CmdCurl == <<"c","u","r","l"," ","x">>
CmdTopPipeNc == <<"t","o","p"," ","|","N","C">>
CmdTopPipeCurl == <<"t","o","p"," ","|","c","u","r","l">>
CmdTopPipeWget == <<"t","o","p"," ","|","w","g","e","t">>
CmdTopPipeSsh == <<"t","o","p"," ","|","s","s","h">>
CmdTopGrepPassword == <<"t","o","p"," ","g","r","e","p"," ","p","a","s","s","w","o","r","d">>
CmdTopGrepSecret == <<"t","o","p"," ","g","r","e","p"," ","s","e","c","r","e","t">>
CmdTopGrepKey == <<"t","o","p"," ","g","r","e","p"," ","k","e","y">>
CmdTopBase64 == <<"t","o","p"," ","b","a","s","e","6","4">>
CmdTopXxd == <<"t","o","p"," ","x","x","d">>
CmdTopSubst == <<"t","o","p"," ","$","(","x",")">>
CmdTopPipeNc2 == <<"t","o","p"," ","|","n","c","2">>
CmdTopSemiCurl == <<"t","o","p"," ",";"," ","c","u","r","l"," ","x">>
CmdTopAndCurl == <<"t","o","p"," ","&","&"," ","c","u","r","l"," ","x">>
CmdLsSemiCurl == <<"l","s"," ",";"," ","c","u","r","l"," ","x">>

Commands == {CmdEmpty, CmdBlank, CmdTop, CmdTopB, CmdLs, CmdLsL, CmdCurl,
             CmdTopPipeCurl, CmdTopPipeWget, CmdTopPipeNc, CmdTopPipeSsh,
             CmdTopGrepPassword, CmdTopGrepSecret, CmdTopGrepKey,
             CmdTopBase64, CmdTopXxd, CmdTopSubst, CmdTopPipeNc2}

\* commands and types the direct add_command / remove_command calls use
StoreCommands == {CmdEmpty, CmdTopB, CmdLs, CmdLsL}
EntryTypes == {"auto", "base", "exact", "pattern"}

WriteOutcomes == {"ok", "oserror"}

\* the domain allowlist of the network gate (spec section 4.11)
network_allowlist == {"docs.python.org"}

Urls == { [host |-> "docs.python.org", path |-> "/3/"],
          [host |-> "evil.example", path |-> "/x"] }
NoUrl == [host |-> "", path |-> ""]

\* the hostname a URL is keyed by in the domain allowlist
extract_domain(url) == url.host

ToolInputs ==
    [tool_name : BashToolNames, command : Commands, url : {NoUrl}]
    \cup [tool_name : OtherToolNames, command : {CmdEmpty}, url : Urls]

(***************************************************************************)
(* PermissionHandler.pre_tool_use_hook, up to its only await               *)
(***************************************************************************)
\* IsBashTool without the lower()
IsBashTool_CaseSensitive(tool_name) ==
    tool_name = ToolBash \/ Contains(tool_name, <<"b","a","s","h">>)

\* the negation of `tool_name != "Bash" and "bash" not in tool_name.lower()`
IsBashTool(tool_name) ==
    tool_name = ToolBash \/ Contains(LowerSeq(tool_name), <<"b","a","s","h">>)

\* the network rule: a blocked base command without UATU_ALLOW_NETWORK
NetworkBlocked(s, command) ==
    /\ get_base_command(command) \in BLOCKED_NETWORK_COMMANDS
    /\ ~s.uatu_allow_network

\* the for loop over SUSPICIOUS_PATTERNS leaves by break
IsSuspicious(command) ==
    \E k \in 1..Len(SUSPICIOUS_PATTERNS) : ReSearch(SUSPICIOUS_PATTERNS[k], command)

\* ConsultsAllowlist without the UATU_REQUIRE_APPROVAL test
ConsultsAllowlist_IgnoresRequireApproval(s, command) ==
    ~IsSuspicious(command)

\* ConsultsAllowlist with the UATU_REQUIRE_APPROVAL test inverted
ConsultsAllowlist_Inverted(s, command) ==
    ~IsSuspicious(command) /\ s.uatu_require_approval

\* the else branch of the loop evaluates is_allowed (`and` short-circuits)
ConsultsAllowlist(s, command) ==
    ~IsSuspicious(command) /\ ~s.uatu_require_approval

\* the else branch of the loop returns allow
AutoAllowed(s, commands, command) ==
    ConsultsAllowlist(s, command) /\ is_allowed(commands, command)

IdleCall ==
    [pc |-> "idle", tool_name |-> <<>>, command |-> <<>>, url |-> NoUrl,
     decision |-> "none", message |-> "", consulted |-> FALSE,
     invoked |-> FALSE, approved |-> FALSE, add_to_allowlist |-> FALSE,
     raised |-> FALSE]

Returned(call, decision, message) ==
    [call EXCEPT !.pc = "done", !.decision = decision, !.message = message]

\* an exception leaves the coroutine: the caller gets no decision
Raised(call) ==
    [call EXCEPT !.pc = "done", !.decision = "exception", !.raised = TRUE]

\* the hook from its entry to its first return or to the await of the callback
HookEntry(input, s, commands, callback) ==
    LET call == [IdleCall EXCEPT !.tool_name = input.tool_name,
                                 !.command = input.command,
                                 !.url = input.url]
    IN IF ~IsBashTool(input.tool_name)
       THEN Returned(call, "allow", "")
       ELSE IF s.uatu_read_only
       THEN Returned(call, "deny", "Bash commands disabled by UATU_READ_ONLY setting")
       ELSE IF NetworkBlocked(s, input.command)
       THEN Returned(call, "deny", "Network command blocked for security")
       ELSE LET checked == [call EXCEPT !.consulted = ConsultsAllowlist(s, input.command)]
            IN IF AutoAllowed(s, commands, input.command)
               THEN Returned(checked, "allow", "Command auto-allowed (allowlisted)")
               ELSE IF ~callback
               THEN Returned(checked, "deny", "No approval callback configured")
               ELSE [checked EXCEPT !.pc = "awaiting", !.invoked = TRUE]

\* the message of an approval that adds to the allowlist
AddedMessage(command) ==
    IF get_base_command(command) \in SAFE_BASE_COMMANDS
    THEN "Command allowed and base command added to allowlist"
    ELSE "Command allowed and added to allowlist (exact match)"

(***************************************************************************)
(* State                                                                   *)
(***************************************************************************)
CallIds == 1..MaxCalls

NoOp == [op |-> "none", result |-> "none", log |-> "none"]

\* entries an allowlist.json written by earlier sessions may hold
StoredEntries ==
    { [pattern |-> CmdTop, type |-> "base"],
      [pattern |-> CmdLsL, type |-> "exact"],
      [pattern |-> CmdLs, type |-> "pattern"],
      [pattern |-> CmdTopPipeNc, type |-> "exact"],
      [pattern |-> CmdCurl, type |-> "exact"] }

RECURSIVE EntryLists(_)
\* the duplicate-free lists of at most n stored entries
EntryLists(n) ==
    IF n <= 0 THEN {<<>>}
    ELSE LET shorter == EntryLists(n - 1)
             longest == {l \in shorter : Len(l) = n - 1}
         IN shorter \cup
            { Append(p[1], p[2]) :
                p \in {q \in longest \X StoredEntries : ~AlreadyExists(q[1], q[2])} }

\* a second AllowlistManager(config_dir) that has not been constructed yet
NoPeer == [constructed |-> FALSE, commands |-> <<>>, result |-> "none"]

InitPeer == peer = NoPeer

\* RateLimiter.__init__ and EventLogger.__init__: no event yet, nothing printed or written
NoLimiter == [clock |-> 0, event_times |-> <<>>, received |-> 0, notices |-> 0]
NoLogger == [delivered |-> <<>>, lines |-> <<>>]

InitHandlers ==
    /\ limiter = NoLimiter
    /\ logger = NoLogger

\* topics and handlers of the event bus
Topics == {"anomaly.cpu", "anomaly.memory"}
Handlers == {"handler1", "handler2"}

\* no publish call in flight
IdlePub ==
    [pc |-> "idle", topic |-> "none", tasks |-> <<>>,
     received |-> [h \in Handlers |-> 0],
     registered |-> [h \in Handlers |-> 0],
     overlapped |-> FALSE]

\* EventBus.__init__: subscribers = defaultdict(list)
InitBus ==
    /\ subscribers = [t \in {} |-> <<>>]
    /\ pub = IdlePub

\* Severity members, by value
Severities == {"info", "warning", "error", "critical"}

\* the anomaly events of the model
Events == [type : {"cpu_spike"}, severity : Severities, message : {"CPU spike", "Load high"}]

\* an Optional value: None, or the value as a one-element sequence
None == <<>>

\* WatcherState(): no baseline, no current snapshot, an empty history
NoState == [baseline |-> None, current |-> None, history |-> <<>>]

\* detect_anomalies has not been called
NoCall == [called |-> FALSE, snapshot |-> None, anomalies |-> <<>>]

InitDetectIdle ==
    /\ state = NoState
    /\ detected = NoCall

\* AsyncWatcher not started: no stop call made, no task in the group
NoOrch == [pc |-> "constructed", stop_requested |-> FALSE]

InitTasksIdle ==
    /\ watchers = [w \in {} |-> <<>>]
    /\ worker = "none"
    /\ orch = NoOrch

\* InvestigationHandler.__init__: an empty queue, no task, nothing logged
InitWatchIdle ==
    /\ arrived = <<>>
    /\ investigation_queue = <<>>
    /\ investigations = <<>>
    /\ provider_calls = 0
    /\ audit = <<>>
    /\ now = 0

\* the default min_severity, and Investigator.__init__ over a missing cache file
InitWatch ==
    /\ min_severity = "warning"
    /\ cache = [k \in {} |-> <<>>]
    /\ InitWatchIdle

InitGate ==
    /\ settings \in [uatu_read_only : BOOLEAN, uatu_require_approval : BOOLEAN,
                     uatu_allow_network : BOOLEAN]
    /\ approval_callback = FALSE
    /\ allowlist \in EntryLists(MaxEntries - 1)
    /\ file = [exists |-> allowlist # <<>>, commands |-> allowlist]
    /\ calls = [c \in CallIds |-> IdleCall]
    /\ lastOp = NoOp
    /\ oserrors = 0

Init ==
    /\ InitGate
    /\ InitPeer
    /\ InitHandlers
    /\ InitBus
    /\ InitWatch
    /\ InitDetectIdle
    /\ InitTasksIdle

\* _save_allowlist: open(config_file, "w") and json.dump, or OSError
Saved(commands, write) ==
    IF write = "ok" THEN [exists |-> TRUE, commands |-> commands] ELSE file

\* the outcome of a call that does not reach _save_allowlist
NoWrite(write) == write = "ok" /\ oserrors' = oserrors

\* the outcome of a call that reaches _save_allowlist
Write(write) ==
    IF write = "ok" THEN oserrors' = oserrors
    ELSE oserrors < MaxOSErrors /\ oserrors' = oserrors + 1

(***************************************************************************)
(* The hook                                                                *)
(***************************************************************************)
\* SessionComponents.create_default wires the approval prompt
SetApprovalCallback ==
    /\ ~approval_callback
    /\ approval_callback' = TRUE
    /\ UNCHANGED <<settings, allowlist, file, calls, lastOp, oserrors, peerVars, handlerVars, busVars, watchVars>>

\* the agent requests a tool: the hook runs to a return or to the await
HookStart(c, input) ==
    /\ calls[c].pc = "idle"
    /\ calls' = [calls EXCEPT ![c] = HookEntry(input, settings, allowlist, approval_callback)]
    /\ UNCHANGED <<settings, approval_callback, allowlist, file, lastOp, oserrors, peerVars, handlerVars, busVars, watchVars>>

\* the callback returns (approved, add_to_allowlist); the hook runs to its end
CallbackReturns(c, approved, add_to_allowlist, write) ==
    LET call == [calls[c] EXCEPT !.approved = approved,
                                 !.add_to_allowlist = add_to_allowlist]
        entry == ResolveEntry(call.command, "auto")
    IN /\ calls[c].pc = "awaiting"
       /\ IF ~approved
          THEN /\ NoWrite(write)
               /\ calls' = [calls EXCEPT ![c] =
                     Returned(call, "deny", "User declined to execute bash command")]
               /\ UNCHANGED <<allowlist, file>>
          ELSE IF ~add_to_allowlist
          THEN /\ NoWrite(write)
               /\ calls' = [calls EXCEPT ![c] = Returned(call, "allow", "Command allowed")]
               /\ UNCHANGED <<allowlist, file>>
          ELSE IF IsBlank(call.command)
          THEN \* add_command raises ValueError
               /\ NoWrite(write)
               /\ calls' = [calls EXCEPT ![c] = Raised(call)]
               /\ UNCHANGED <<allowlist, file>>
          ELSE IF AlreadyExists(allowlist, entry)
          THEN /\ NoWrite(write)
               /\ calls' = [calls EXCEPT ![c] =
                     Returned(call, "allow", AddedMessage(call.command))]
               /\ UNCHANGED <<allowlist, file>>
          ELSE /\ Len(allowlist) < MaxEntries
               /\ allowlist' = AddedCommands(allowlist, call.command, "auto")
               /\ file' = Saved(allowlist', write)
               /\ Write(write)
               /\ calls' = [calls EXCEPT ![c] =
                     IF write = "ok"
                     THEN Returned(call, "allow", AddedMessage(call.command))
                     ELSE Raised(call)]
       /\ UNCHANGED <<settings, approval_callback, lastOp, peerVars, handlerVars, busVars, watchVars>>

\* the callback raises: nothing in the hook catches it
CallbackRaises(c) ==
    /\ calls[c].pc = "awaiting"
    /\ calls' = [calls EXCEPT ![c] = Raised(calls[c])]
    /\ UNCHANGED <<settings, approval_callback, allowlist, file, lastOp, oserrors, peerVars, handlerVars, busVars, watchVars>>

\* the SDK takes the hook's result
HookDone(c) ==
    /\ calls[c].pc = "done"
    /\ calls' = [calls EXCEPT ![c] = IdleCall]
    /\ UNCHANGED <<settings, approval_callback, allowlist, file, lastOp, oserrors, peerVars, handlerVars, busVars, watchVars>>

(***************************************************************************)
(* AllowlistManager called directly (tests, /allowlist commands)           *)
(***************************************************************************)
add_command(command, entry_type, write) ==
    LET entry == ResolveEntry(command, entry_type)
        op == [op |-> "add", result |-> "none", log |-> "none"]
    IN /\ IF IsBlank(command)
          THEN /\ NoWrite(write)
               /\ lastOp' = [op EXCEPT !.result = "ValueError"]
               /\ UNCHANGED <<allowlist, file>>
          ELSE IF AlreadyExists(allowlist, entry)
          THEN /\ NoWrite(write)
               /\ lastOp' = [op EXCEPT !.result = "ok", !.log = "already in allowlist"]
               /\ UNCHANGED <<allowlist, file>>
          ELSE /\ Len(allowlist) < MaxEntries
               /\ allowlist' = AddedCommands(allowlist, command, entry_type)
               /\ file' = Saved(allowlist', write)
               /\ Write(write)
               /\ lastOp' = [op EXCEPT !.result = IF write = "ok" THEN "ok" ELSE "OSError",
                                       !.log = "Adding to allowlist"]
       /\ UNCHANGED <<settings, approval_callback, calls, peerVars, handlerVars, busVars, watchVars>>

\* Kept as list.remove would do it: only the first matching entry goes
Kept_FirstOnly(commands, pattern) ==
    IF \E i \in 1..Len(commands) : commands[i].pattern = pattern
    THEN LET first == CHOOSE i \in 1..Len(commands) :
                         /\ commands[i].pattern = pattern
                         /\ \A j \in 1..(i - 1) : commands[j].pattern # pattern
         IN SubSeq(commands, 1, first - 1) \o SubSeq(commands, first + 1, Len(commands))
    ELSE commands

\* the list remove_command keeps
Kept(commands, pattern) ==
    SelectSeq(commands, LAMBDA e : e.pattern # pattern)

remove_command(pattern, write) ==
    LET op == [op |-> "remove", result |-> "none", log |-> "none"]
    IN /\ allowlist' = Kept(allowlist, pattern)
       /\ IF Len(allowlist') < Len(allowlist)
          THEN /\ file' = Saved(allowlist', write)
               /\ Write(write)
               /\ lastOp' = [op EXCEPT !.result = IF write = "ok" THEN "True" ELSE "OSError",
                                       !.log = "Removed from allowlist"]
          ELSE /\ NoWrite(write)
               /\ file' = file
               /\ lastOp' = [op EXCEPT !.result = "False", !.log = "not found in allowlist"]
       /\ UNCHANGED <<settings, approval_callback, calls, peerVars, handlerVars, busVars, watchVars>>

clear(write) ==
    /\ allowlist' = <<>>
    /\ file' = Saved(allowlist', write)
    /\ Write(write)
    /\ lastOp' = [op |-> "clear", result |-> IF write = "ok" THEN "ok" ELSE "OSError",
                  log |-> "Clearing all allowlist entries"]
    /\ UNCHANGED <<settings, approval_callback, calls, peerVars, handlerVars, busVars, watchVars>>

(***************************************************************************)
(* A second AllowlistManager over the same config_dir                      *)
(***************************************************************************)
\* _load_allowlist: a missing file gives the empty list, else the file's list
Loaded(f) == IF f.exists THEN f.commands ELSE <<>>

\* AllowlistManager(config_dir): the only place the file is read
PeerConstruct ==
    /\ ~peer.constructed
    /\ peer' = [constructed |-> TRUE, commands |-> Loaded(file), result |-> "none"]
    /\ UNCHANGED <<settings, approval_callback, allowlist, file, calls, lastOp, oserrors,
                   busVars, handlerVars, watchVars>>

\* add_command of the second instance: its own list, the shared file
peer_add_command(command, entry_type) ==
    LET entry == ResolveEntry(command, entry_type)
    IN /\ peer.constructed
       /\ IF IsBlank(command)
          THEN /\ peer' = [peer EXCEPT !.result = "ValueError"]
               /\ file' = file
          ELSE IF AlreadyExists(peer.commands, entry)
          THEN /\ peer' = [peer EXCEPT !.result = "ok"]
               /\ file' = file
          ELSE /\ Len(peer.commands) < MaxEntries
               /\ peer' = [peer EXCEPT
                             !.commands = AddedCommands(peer.commands, command, entry_type),
                             !.result = "ok"]
               /\ file' = [exists |-> TRUE, commands |-> peer'.commands]
       /\ UNCHANGED <<settings, approval_callback, allowlist, calls, lastOp, oserrors,
                      busVars, handlerVars, watchVars>>

(***************************************************************************)
(* EventBus                                                                *)
(***************************************************************************)
\* the number of times handler is listed
Registrations(list, handler) == Cardinality({i \in 1..Len(list) : list[i] = handler})

\* subscribe: subscribers[event_type].append(handler), the defaultdict making the key
subscribe(event_type, handler) ==
    /\ IF event_type \in DOMAIN subscribers
       THEN /\ Len(subscribers[event_type]) < MaxSubs
            /\ subscribers' = [subscribers EXCEPT ![event_type] = Append(@, handler)]
       ELSE subscribers' = subscribers @@ (event_type :> <<handler>>)
    /\ UNCHANGED <<settings, approval_callback, allowlist, file, calls, lastOp, oserrors,
                   peerVars, handlerVars, pub, watchVars>>

\* list.remove(handler): the first occurrence goes
Removed(list, handler) ==
    LET first == CHOOSE i \in 1..Len(list) :
                    /\ list[i] = handler
                    /\ \A j \in 1..(i - 1) : list[j] # handler
    IN SubSeq(list, 1, first - 1) \o SubSeq(list, first + 1, Len(list))

\* unsubscribe: a no-op for an unknown topic; list.remove raises ValueError
\* for a handler the topic does not list, and the table is as before
unsubscribe(event_type, handler) ==
    /\ event_type \in DOMAIN subscribers
    /\ Registrations(subscribers[event_type], handler) > 0
    /\ subscribers' = [subscribers EXCEPT ![event_type] = Removed(@, handler)]
    /\ UNCHANGED <<settings, approval_callback, allowlist, file, calls, lastOp, oserrors,
                   peerVars, handlerVars, pub, watchVars>>

\* tasks = [handler(event) for handler in self.subscribers[event_type]]
Coroutines(list) == [i \in 1..Len(list) |-> [handler |-> list[i], state |-> "pending"]]

\* publish up to its await: the coroutines are created from the list as it is now
publish(event_type) ==
    /\ pub.pc = "idle"
    /\ pub' = IF event_type \in DOMAIN subscribers
              THEN [IdlePub EXCEPT
                      !.pc = "gathering",
                      !.topic = event_type,
                      !.tasks = Coroutines(subscribers[event_type]),
                      !.registered = [h \in Handlers |->
                                        Registrations(subscribers[event_type], h)]]
              ELSE [IdlePub EXCEPT !.pc = "returned", !.topic = event_type]
    /\ UNCHANGED <<settings, approval_callback, allowlist, file, calls, lastOp, oserrors,
                   peerVars, handlerVars, subscribers, watchVars>>

Finished(task) == task.state \in {"returned", "raised"}

\* what a handler does when it is given control
HandlerOutcomes == {"running", "returned", "raised"}

\* the event loop starts the tasks of gather in the order of the list; a
\* handler receives the event and runs to its first await, its return or its raise
HandlerStart(i, outcome) ==
    /\ pub.pc = "gathering"
    /\ i \in 1..Len(pub.tasks)
    /\ pub.tasks[i].state = "pending"
    /\ \A j \in 1..(i - 1) : pub.tasks[j].state # "pending"
    /\ pub' = [pub EXCEPT
                 !.tasks[i].state = outcome,
                 !.received[pub.tasks[i].handler] = @ + 1,
                 !.overlapped = @ \/ (outcome = "running" /\
                                        \E j \in 1..Len(pub.tasks) :
                                            j # i /\ pub.tasks[j].state = "running")]
    /\ UNCHANGED <<settings, approval_callback, allowlist, file, calls, lastOp, oserrors,
                   peerVars, handlerVars, subscribers, watchVars>>

\* a handler suspended at an await is resumed and returns or raises
HandlerResume(i, outcome) ==
    /\ pub.pc = "gathering"
    /\ i \in 1..Len(pub.tasks)
    /\ pub.tasks[i].state = "running"
    /\ outcome \in {"returned", "raised"}
    /\ pub' = [pub EXCEPT !.tasks[i].state = outcome]
    /\ UNCHANGED <<settings, approval_callback, allowlist, file, calls, lastOp, oserrors,
                   peerVars, handlerVars, subscribers, watchVars>>

\* a gather that is done as soon as one task is
GatherComplete_FirstCompleted(tasks) ==
    tasks = <<>> \/ \E i \in 1..Len(tasks) : Finished(tasks[i])

\* asyncio.gather(*tasks) is done when every task is
GatherComplete(tasks) == \A i \in 1..Len(tasks) : Finished(tasks[i])

\* a gather without return_exceptions hands the first exception to its awaiter
PublishOutcome_Propagates(tasks) ==
    IF \E i \in 1..Len(tasks) : tasks[i].state = "raised" THEN "raised" ELSE "returned"

\* return_exceptions=True: exceptions are results, publish returns None
PublishOutcome(tasks) == "returned"

\* await asyncio.gather(...) completes and publish returns
PublishReturns ==
    /\ pub.pc = "gathering"
    /\ GatherComplete(pub.tasks)
    /\ pub' = [pub EXCEPT !.pc = PublishOutcome(pub.tasks)]
    /\ UNCHANGED <<settings, approval_callback, allowlist, file, calls, lastOp, oserrors,
                   peerVars, handlerVars, subscribers, watchVars>>

\* the publisher goes on
PublishDone ==
    /\ pub.pc \in {"returned", "raised"}
    /\ pub' = IdlePub
    /\ UNCHANGED <<settings, approval_callback, allowlist, file, calls, lastOp, oserrors,
                   peerVars, handlerVars, subscribers, watchVars>>

(***************************************************************************)
(* InvestigationHandler and Investigator                                   *)
(***************************************************************************)
\* event.severity >= self.min_severity: Severity is an Enum with str values,
\* which defines no ordering, so the comparison raises for every pair
severity_ge(a, b) == "TypeError"

\* severity.string_value: Severity has no such attribute
string_value(severity) == "AttributeError"

\* on_anomaly: the comparison, then the put on the unbounded queue
on_anomaly(event) ==
    LET test == severity_ge(event.severity, min_severity)
    IN /\ Len(arrived) < MaxEvents
       /\ arrived' = Append(arrived,
                        [event |-> event,
                         outcome |-> IF test = "TypeError" THEN "TypeError" ELSE "returned"])
       /\ investigation_queue' = IF test = "True"
                                  THEN Append(investigation_queue, event)
                                  ELSE investigation_queue
       /\ UNCHANGED <<settings, approval_callback, allowlist, file, calls, lastOp, oserrors,
                      peerVars, handlerVars, busVars, min_severity, investigations, cache,
                      provider_calls, audit, now,
                   detectVars, taskVars>>

\* get_cache_key: the digest of "type:message", taken to be free of
\* collisions on the events of the model
get_cache_key(event) == <<event.type, event.message>>

\* InvestigationCache.get returns the entry: present and not older than an hour
CacheHit(c, event, t) ==
    /\ get_cache_key(event) \in DOMAIN c
    /\ ~(t - c[get_cache_key(event)].timestamp > 1)

\* the events start() takes from the queue
InvestigatedEvents == {e \in Events : e.severity = "warning"}

\* the caches investigation_cache.json may hold when the Investigator is built
LoadedCaches ==
    UNION { [keys -> [timestamp : {0}, count : 1..MaxCount]] :
              keys \in SUBSET {get_cache_key(e) : e \in InvestigatedEvents} }

\* the wall clock advances by an hour
Tick ==
    /\ now < MaxHours
    /\ now' = now + 1
    /\ UNCHANGED <<settings, approval_callback, allowlist, file, calls, lastOp, oserrors,
                   peerVars, handlerVars, busVars, min_severity, arrived, investigation_queue,
                   investigations, cache, provider_calls, audit,
                   detectVars, taskVars>>

\* start: asyncio.create_task(self._investigate_and_display(event)); the
\* task runs to its await of the snapshot thread
start(event) ==
    /\ Len(investigations) < MaxTasks
    /\ investigations' = Append(investigations,
                             [event |-> event, pc |-> "snapshot",
                              cached |-> "none", cache_count |-> 0])
    /\ UNCHANGED <<settings, approval_callback, allowlist, file, calls, lastOp, oserrors,
                   peerVars, handlerVars, busVars, min_severity, arrived, investigation_queue,
                   cache, provider_calls, audit, now,
                   detectVars, taskVars>>

\* the task after its snapshot: investigate() returns the cached entry on a
\* hit and the task goes on to await log_investigation; on a miss the prompt
\* is formatted with severity.string_value before the provider is called,
\* and the except clause of _investigate_and_display ends the task
Investigate_CachesFailure(i) ==
    LET task == investigations[i]
        key == get_cache_key(task.event)
    IN /\ i \in 1..Len(investigations)
       /\ task.pc = "snapshot"
       /\ investigations' = [investigations EXCEPT ![i] =
             IF CacheHit(cache, task.event, now)
             THEN [task EXCEPT !.pc = "logging", !.cached = "True",
                               !.cache_count = cache[key].count]
             ELSE [task EXCEPT !.pc = "failed"]]
       /\ cache' = IF CacheHit(cache, task.event, now)
                    THEN cache
                    ELSE (key :> [timestamp |-> now, count |-> 1]) @@ cache
       /\ UNCHANGED <<settings, approval_callback, allowlist, file, calls, lastOp, oserrors,
                      peerVars, handlerVars, busVars, min_severity, arrived, investigation_queue,
                      provider_calls, audit, now, detectVars, taskVars>>

Investigate(i) ==
    LET task == investigations[i]
        key == get_cache_key(task.event)
    IN /\ i \in 1..Len(investigations)
       /\ task.pc = "snapshot"
       /\ investigations' = [investigations EXCEPT ![i] =
             IF CacheHit(cache, task.event, now)
             THEN [task EXCEPT !.pc = "logging", !.cached = "True",
                               !.cache_count = cache[key].count]
             ELSE IF string_value(task.event.severity) = "AttributeError"
             THEN [task EXCEPT !.pc = "failed"]
             ELSE [task EXCEPT !.pc = "querying"]]
       /\ UNCHANGED <<settings, approval_callback, allowlist, file, calls, lastOp, oserrors,
                      peerVars, handlerVars, busVars, min_severity, arrived, investigation_queue,
                      cache, provider_calls, audit, now,
                   detectVars, taskVars>>

\* log_investigation: _write_investigation builds the record with
\* severity.string_value, the exception is caught and printed, and the task
\* displays the result and ends
LogInvestigation(i) ==
    LET task == investigations[i]
    IN /\ i \in 1..Len(investigations)
       /\ task.pc = "logging"
       /\ audit' = IF string_value(task.event.severity) = "AttributeError"
                    THEN audit
                    ELSE Append(audit, [event |-> task.event, cached |-> task.cached,
                                        cache_count |-> task.cache_count])
       /\ investigations' = [investigations EXCEPT ![i].pc = "done"]
       /\ UNCHANGED <<settings, approval_callback, allowlist, file, calls, lastOp, oserrors,
                      peerVars, handlerVars, busVars, min_severity, arrived, investigation_queue,
                      cache, provider_calls, now,
                   detectVars, taskVars>>

(***************************************************************************)
(* The anomaly detector (uatu/watcher/detector.py) over a WatcherState     *)
(* (uatu/watcher/models.py).  Percentages and megabytes are whole numbers; *)
(* the ratios 1.5, 1.3 and 0.8 are kept in tenths, and a comparison with a *)
(* product is made after multiplying both sides by ten.                    *)
(***************************************************************************)
\* AnomalyDetector.__init__
cpu_spike_threshold == 15
memory_spike_threshold == 13
cpu_critical == 90
memory_critical == 95

Upper(ch) ==
    IF \E k \in 1..26 : ch = LowerCase[k]
    THEN UpperCase[CHOOSE k \in 1..26 : ch = LowerCase[k]]
    ELSE ch

\* str.upper
UpperSeq(s) == [i \in 1..Len(s) |-> Upper(s[i])]

\* the processes a sample may list: a zombie, and a process that takes half a core
StateNone == <<>>
StateZ == <<"Z">>
Zombie == [pid |-> 555, cpu_percent |-> 0, memory_mb |-> 0, state |-> StateZ]
Hog == [pid |-> 999, cpu_percent |-> 50, memory_mb |-> 100, state |-> StateNone]

\* the top-CPU and top-memory lists of a snapshot
TopLists ==
    { <<<<>>, <<>>>>, <<<<Zombie>>, <<>>>>, <<<<>>, <<Zombie>>>>,
      <<<<Zombie>>, <<Zombie>>>>, <<<<Hog>>, <<>>>> }

SystemSnapshot(cpu, mem, used, tops) ==
    [cpu_percent |-> cpu, memory_percent |-> mem, memory_used_mb |-> used,
     top_cpu_processes |-> tops[1], top_memory_processes |-> tops[2]]

\* the baselines a WatcherState is given, and the snapshots detection is asked about
Baselines == { SystemSnapshot(40, 60, 0, <<<<>>, <<>>>>),
               SystemSnapshot(60, 80, 0, <<<<>>, <<>>>>) }

Snapshots ==
    { SystemSnapshot(cpu, mem, 0, tops) :
        cpu \in {60, 61, 90}, mem \in {78, 79, 95}, tops \in TopLists }

\* the samples the observation loop may add after the history so far: a
\* quiet system whose memory use stays or grows by a megabyte
Samples(history) ==
    LET last == IF history = <<>> THEN 0 ELSE history[Len(history)].memory_used_mb
    IN { SystemSnapshot(40, 60, used, <<<<>>, <<>>>>) :
           used \in {u \in {last, last + 1} : u <= MaxUsed} }

AnomalyEvent(type, severity, pid) == [type |-> type, severity |-> severity, pid |-> pid]

\* _detect_cpu_anomalies, under a baseline
detect_cpu_anomalies_NonStrict(st, snapshot) ==
    IF snapshot.cpu_percent >= cpu_critical
    THEN <<AnomalyEvent("cpu_spike", "critical", 0)>>
    ELSE IF 10 * snapshot.cpu_percent >= st.baseline[1].cpu_percent * cpu_spike_threshold
    THEN <<AnomalyEvent("cpu_spike", "warning", 0)>>
    ELSE <<>>

detect_cpu_anomalies(st, snapshot) ==
    IF snapshot.cpu_percent >= cpu_critical
    THEN <<AnomalyEvent("cpu_spike", "critical", 0)>>
    ELSE IF 10 * snapshot.cpu_percent > st.baseline[1].cpu_percent * cpu_spike_threshold
    THEN <<AnomalyEvent("cpu_spike", "warning", 0)>>
    ELSE <<>>

\* state.history[-n:]
LastN(history, n) ==
    IF Len(history) <= n THEN history ELSE SubSeq(history, Len(history) - n + 1, Len(history))

\* _is_memory_increasing: increases >= len(snapshots) * 0.8
is_memory_increasing(snapshots) ==
    LET increases == Cardinality({ i \in 2..Len(snapshots) :
                         snapshots[i].memory_used_mb > snapshots[i - 1].memory_used_mb })
    IN IF Len(snapshots) < 3
       THEN FALSE
       ELSE 10 * increases >= Len(snapshots) * 8

\* the spike part of _detect_memory_anomalies
memory_spike_NonStrict(st, snapshot) ==
    IF snapshot.memory_percent >= memory_critical
    THEN <<AnomalyEvent("memory_spike", "critical", 0)>>
    ELSE IF 10 * snapshot.memory_percent >= st.baseline[1].memory_percent * memory_spike_threshold
    THEN <<AnomalyEvent("memory_spike", "warning", 0)>>
    ELSE <<>>

memory_spike(st, snapshot) ==
    IF snapshot.memory_percent >= memory_critical
    THEN <<AnomalyEvent("memory_spike", "critical", 0)>>
    ELSE IF 10 * snapshot.memory_percent > st.baseline[1].memory_percent * memory_spike_threshold
    THEN <<AnomalyEvent("memory_spike", "warning", 0)>>
    ELSE <<>>

\* _detect_memory_anomalies: the spike, then the leak over the last six
\* samples of the history
detect_memory_anomalies(st, snapshot) ==
    memory_spike(st, snapshot)
    \o (IF Len(st.history) >= 6 /\ is_memory_increasing(LastN(st.history, 6))
        THEN <<AnomalyEvent("memory_leak", "warning", 0)>>
        ELSE <<>>)

\* the concatenation top_cpu_processes + top_memory_processes
TopProcesses(snapshot) == snapshot.top_cpu_processes \o snapshot.top_memory_processes

Pids(snapshot) == { TopProcesses(snapshot)[i].pid : i \in 1..Len(TopProcesses(snapshot)) }

\* next(p for p in ... if p.pid == pid): the first listed process of that pid
FirstOfPid(snapshot, pid) ==
    LET procs == TopProcesses(snapshot)
    IN procs[CHOOSE i \in 1..Len(procs) :
                 /\ procs[i].pid = pid
                 /\ \A j \in 1..(i - 1) : procs[j].pid # pid]

\* the pids of a set in ascending order (the model lists at most one new pid)
RECURSIVE Ascending(_)
Ascending(pids) ==
    IF pids = {}
    THEN <<>>
    ELSE LET least == CHOOSE p \in pids : \A q \in pids : p <= q
         IN <<least>> \o Ascending(pids \ {least})

\* one NEW_PROCESS event per new pid whose process takes more than 20% of a
\* core or more than 500 MB
RECURSIVE NewProcessEvents(_, _)
NewProcessEvents(snapshot, pids) ==
    IF pids = <<>>
    THEN <<>>
    ELSE LET proc == FirstOfPid(snapshot, Head(pids))
         IN (IF proc.cpu_percent > 20 \/ proc.memory_mb > 500
             THEN <<AnomalyEvent("new_process", "info", proc.pid)>>
             ELSE <<>>)
            \o NewProcessEvents(snapshot, Tail(pids))

\* "Z" in proc.state.upper() or "zombie" in proc.state.lower()
is_zombie(proc) ==
    \/ Contains(UpperSeq(proc.state), <<"Z">>)
    \/ Contains(LowerSeq(proc.state), <<"z", "o", "m", "b", "i", "e">>)

\* one ZOMBIE_PROCESS event per listed process in a zombie state
RECURSIVE ZombieEvents(_)
ZombieEvents(procs) ==
    IF procs = <<>>
    THEN <<>>
    ELSE (IF is_zombie(Head(procs))
          THEN <<AnomalyEvent("zombie_process", "warning", Head(procs).pid)>>
          ELSE <<>>)
         \o ZombieEvents(Tail(procs))

\* _detect_process_anomalies: nothing without a current snapshot
detect_process_anomalies(st, snapshot) ==
    IF st.current = None
    THEN <<>>
    ELSE NewProcessEvents(snapshot, Ascending(Pids(snapshot) \ Pids(st.current[1])))
         \o ZombieEvents(TopProcesses(snapshot))

\* detect_anomalies: nothing without a baseline
detect_anomalies(st, snapshot) ==
    IF st.baseline = None
    THEN <<>>
    ELSE detect_cpu_anomalies(st, snapshot)
         \o detect_memory_anomalies(st, snapshot)
         \o detect_process_anomalies(st, snapshot)

\* WatcherState.add_snapshot: the snapshot becomes current and joins the
\* history, whose oldest element goes once max_history is exceeded
Added_DropsNewest(st, snapshot) ==
    LET longer == Append(st.history, snapshot)
    IN [st EXCEPT
          !.current = <<snapshot>>,
          !.history = IF Len(longer) > MaxHistory
                      THEN SubSeq(longer, 1, Len(longer) - 1)
                      ELSE longer]

Added(st, snapshot) ==
    LET longer == Append(st.history, snapshot)
    IN [st EXCEPT
          !.current = <<snapshot>>,
          !.history = IF Len(longer) > MaxHistory THEN Tail(longer) ELSE longer]

add_snapshot(snapshot) ==
    /\ state' = Added(state, snapshot)
    /\ UNCHANGED <<gateVars, peerVars, handlerVars, busVars, pipeVars, detected, taskVars>>

\* a call detector.detect_anomalies(state, snapshot)
DetectAnomalies(snapshot) ==
    /\ detected' = [called |-> TRUE, snapshot |-> <<snapshot>>,
                    anomalies |-> detect_anomalies(state, snapshot)]
    /\ UNCHANGED <<gateVars, peerVars, handlerVars, busVars, pipeVars, state, taskVars>>

\* the top lists of the samples the legacy Watcher takes: no process of
\* note, or a process that takes half a core, in either list
ObservedTops == { <<<<>>, <<>>>>, <<<<Hog>>, <<>>>>, <<<<>>, <<Hog>>>> }

ObservedSamples == { SystemSnapshot(40, 60, 0, tops) : tops \in ObservedTops }

RECURSIVE Sum(_, _)
Sum(samples, field) ==
    IF samples = <<>> THEN 0 ELSE Head(samples)[field] + Sum(Tail(samples), field)

\* Watcher._calculate_baseline: the averages of the samples, with empty top
\* lists (the samples of the model agree in the averaged fields, so that
\* the quotients are exact)
calculate_baseline(samples) ==
    SystemSnapshot(Sum(samples, "cpu_percent") \div Len(samples),
                   Sum(samples, "memory_percent") \div Len(samples),
                   Sum(samples, "memory_used_mb") \div Len(samples),
                   <<<<>>, <<>>>>)

\* one iteration of the loop of Watcher._establish_baseline
BaselineSample(snapshot) ==
    /\ state.baseline = None
    /\ Len(state.history) < SamplesNeeded
    /\ state' = Added(state, snapshot)
    /\ UNCHANGED <<gateVars, peerVars, handlerVars, busVars, pipeVars, detected, taskVars>>

\* the end of Watcher._establish_baseline: the baseline of the samples taken
BaselineEstablished ==
    /\ state.baseline = None
    /\ Len(state.history) = SamplesNeeded
    /\ state' = [state EXCEPT !.baseline = <<calculate_baseline(state.history)>>]
    /\ UNCHANGED <<gateVars, peerVars, handlerVars, busVars, pipeVars, detected, taskVars>>

\* one iteration of Watcher._observation_loop: the sample is added to the
\* state, then the detector is called with the state and the sample
Observe(snapshot) ==
    /\ state.baseline # None
    /\ state' = Added(state, snapshot)
    /\ detected' = [called |-> TRUE, snapshot |-> <<snapshot>>,
                    anomalies |-> detect_anomalies(Added(state, snapshot), snapshot)]
    /\ UNCHANGED <<gateVars, peerVars, handlerVars, busVars, pipeVars, taskVars>>

(***************************************************************************)
(* The signal watchers (uatu/watcher/async_watchers.py).  A watcher is a   *)
(* record of its fields and of the position of its start() coroutine:      *)
(* "constructed" (no task yet), "created" (the task exists and has not     *)
(* run), "listing" (ProcessWatcher awaits its first process list),         *)
(* "sampling" (awaits the sampling thread), "publishing" (awaits           *)
(* EventBus.publish), "sleeping" (awaits the interval), "backoff" (awaits  *)
(* the five seconds after an error), "returned", "raised" and "cancelled". *)
(* Multipliers are in tenths.                                              *)
(***************************************************************************)
WatcherNames == {"cpu", "memory", "load", "process"}

\* the watchers of one sampled number: CPUWatcher, MemoryWatcher, LoadWatcher
SignalKinds == {"cpu", "memory", "load"}

\* the default threshold_multiplier of each class: 1.5, 1.2 and 2.0
DefaultMultiplier == [cpu |-> 15, memory |-> 12, load |-> 20, process |-> 0]

EventType == [cpu |-> "cpu_spike", memory |-> "memory_spike", load |-> "high_load"]
Topic == [cpu |-> "anomaly.cpu", memory |-> "anomaly.memory", load |-> "anomaly.load"]

\* __init__ of the four classes
NewWatcher(kind, baseline) ==
    [kind |-> kind, running |-> FALSE, pc |-> "constructed", baseline |-> baseline,
     threshold_multiplier |-> DefaultMultiplier[kind], sampled |-> 0, iterations |-> 0,
     published |-> <<>>, process_map |-> {}, recent_deaths |-> <<>>]

\* the baselines a watcher is given, and what its signal may read: the
\* product of the larger baseline and the multiplier, and the value above it
WatcherBaselines == {0, 40}
Readings == [cpu |-> {60, 61}, memory |-> {48, 49}, load |-> {80, 81}]

\* the processes psutil.process_iter may list: a service and its successor
Service == [pid |-> 1, name |-> "nginx"]
Successor == [pid |-> 2, name |-> "nginx"]
Third == [pid |-> 3, name |-> "nginx"]
Cron == [pid |-> 4, name |-> "cron"]
ProcessNames == {"nginx", "cron"}

\* self.baseline > 0 and value > self.baseline * self.threshold_multiplier
Exceeds_NoBaselineTest(watcher, value) ==
    10 * value > watcher.baseline * watcher.threshold_multiplier

Exceeds(watcher, value) ==
    /\ watcher.baseline > 0
    /\ 10 * value > watcher.baseline * watcher.threshold_multiplier

\* while self._running
LoopTest_Ignored(watcher) == TRUE

LoopTest(watcher) == watcher.running

\* the top of the loop: another iteration begins with the sampling call, or
\* start() returns
EnterLoop(watcher) ==
    IF LoopTest(watcher)
    THEN [watcher EXCEPT !.pc = "sampling", !.iterations = @ + 1]
    ELSE [watcher EXCEPT !.pc = "returned"]

CanEnterLoop(watcher) == LoopTest(watcher) => watcher.iterations < MaxIterations

\* the orchestrator sets a watcher's baseline once it is established
SetBaseline(w, baseline) ==
    /\ w \in DOMAIN watchers
    /\ watchers[w].kind # "process"
    /\ watchers[w].baseline # baseline
    /\ watchers' = [watchers EXCEPT ![w].baseline = baseline]
    /\ UNCHANGED <<gateVars, peerVars, handlerVars, busVars, pipeVars, detectVars, worker, orch>>

\* start() begins to run: _running = True, then the first process list
\* (ProcessWatcher) or the loop
WatcherStart(w) ==
    /\ w \in DOMAIN watchers
    /\ watchers[w].pc = "created"
    /\ LET begun == [watchers[w] EXCEPT !.running = TRUE]
       IN /\ begun.kind # "process" => CanEnterLoop(begun)
          /\ watchers' = [watchers EXCEPT ![w] =
                IF begun.kind = "process"
                THEN [begun EXCEPT !.pc = "listing"]
                ELSE EnterLoop(begun)]
    /\ UNCHANGED <<gateVars, peerVars, handlerVars, busVars, pipeVars, detectVars, worker, orch>>

\* stop(): _running = False
WatcherStop(w) ==
    /\ w \in DOMAIN watchers
    /\ watchers' = [watchers EXCEPT ![w].running = FALSE]
    /\ UNCHANGED <<gateVars, peerVars, handlerVars, busVars, pipeVars, detectVars, worker, orch>>

\* AnomalyEvent(type, severity, message, timestamp, details) on its topic
WatcherEvent(type, severity, topic, details) ==
    [type |-> type, severity |-> severity, topic |-> topic, details |-> details]

\* the sampling thread of a CPU, memory or load watcher returns a value:
\* the test, and the call of publish when it passes
SampleReturns(w, value) ==
    /\ w \in DOMAIN watchers
    /\ watchers[w].kind # "process"
    /\ watchers[w].pc = "sampling"
    /\ LET watcher == watchers[w]
           event == WatcherEvent(EventType[watcher.kind], "warning", Topic[watcher.kind],
                                 [current |-> value, baseline |-> watcher.baseline])
       IN watchers' = [watchers EXCEPT ![w] =
             IF Exceeds(watcher, value)
             THEN [watcher EXCEPT !.sampled = value, !.pc = "publishing",
                                  !.published = Append(@, event)]
             ELSE [watcher EXCEPT !.sampled = value, !.pc = "sleeping"]]
    /\ UNCHANGED <<gateVars, peerVars, handlerVars, busVars, pipeVars, detectVars, worker, orch>>

\* the sampling thread raises: except Exception, then the back-off sleep
SampleRaises(w) ==
    /\ w \in DOMAIN watchers
    /\ watchers[w].pc = "sampling"
    /\ watchers' = [watchers EXCEPT ![w].pc = "backoff"]
    /\ UNCHANGED <<gateVars, peerVars, handlerVars, busVars, pipeVars, detectVars, worker, orch>>

\* publish returns (its handlers have finished) and the interval sleep begins
PublishAwaited(w) ==
    /\ w \in DOMAIN watchers
    /\ watchers[w].pc = "publishing"
    /\ watchers' = [watchers EXCEPT ![w].pc = "sleeping"]
    /\ UNCHANGED <<gateVars, peerVars, handlerVars, busVars, pipeVars, detectVars, worker, orch>>

\* the interval or back-off sleep ends and the loop test is made
Wake(w) ==
    /\ w \in DOMAIN watchers
    /\ watchers[w].pc \in {"sleeping", "backoff"}
    /\ CanEnterLoop(watchers[w])
    /\ watchers' = [watchers EXCEPT ![w] = EnterLoop(watchers[w])]
    /\ UNCHANGED <<gateVars, peerVars, handlerVars, busVars, pipeVars, detectVars, worker, orch>>

\* the pids of a process list
PidsOf(listing) == { p.pid : p \in listing }

\* the processes of a set in ascending order of pid
RECURSIVE ByPid(_)
ByPid(procs) ==
    IF procs = {}
    THEN <<>>
    ELSE LET least == CHOOSE p \in procs : \A q \in procs : p.pid <= q.pid
         IN <<least>> \o ByPid(procs \ {least})

\* ProcessWatcher: the first process list arrives and the loop is entered
ListingReturns(w, listing) ==
    /\ w \in DOMAIN watchers
    /\ watchers[w].kind = "process"
    /\ watchers[w].pc = "listing"
    /\ LET listed == [watchers[w] EXCEPT !.process_map = listing]
       IN /\ CanEnterLoop(listed)
          /\ watchers' = [watchers EXCEPT ![w] = EnterLoop(listed)]
    /\ UNCHANGED <<gateVars, peerVars, handlerVars, busVars, pipeVars, detectVars, worker, orch>>

\* ProcessWatcher: the first listing raises, outside the try of the loop, and
\* the exception leaves start()
ListingRaises(w) ==
    /\ w \in DOMAIN watchers
    /\ watchers[w].kind = "process"
    /\ watchers[w].pc = "listing"
    /\ watchers' = [watchers EXCEPT ![w].pc = "raised"]
    /\ UNCHANGED <<gateVars, peerVars, handlerVars, busVars, pipeVars, detectVars, worker, orch>>

\* recent_deaths as time passes: an entry is fresh while its death is less
\* than 10 seconds old; entries are in order of death, so an entry is never
\* fresher than a later one
Aged(deaths) ==
    { aged \in [1..Len(deaths) -> [name : ProcessNames, fresh : BOOLEAN]] :
        /\ \A i \in 1..Len(deaths) :
              aged[i].name = deaths[i].name /\ (aged[i].fresh => deaths[i].fresh)
        /\ \A i, j \in 1..Len(deaths) : (i < j /\ aged[i].fresh) => aged[j].fresh }

RECURSIVE Deaths(_)
Deaths(procs) ==
    IF procs = <<>>
    THEN <<>>
    ELSE <<[name |-> Head(procs).name, fresh |-> TRUE]>> \o Deaths(Tail(procs))

RECURSIVE CrashEvents(_)
CrashEvents(procs) ==
    IF procs = <<>>
    THEN <<>>
    ELSE <<WatcherEvent("process_crash", "warning", "anomaly.process_crash",
                        [pid |-> Head(procs).pid, name |-> Head(procs).name])>>
         \o CrashEvents(Tail(procs))

\* _is_likely_restart: a death of that name within the last 10 seconds
is_likely_restart_AnyAge(deaths, name) ==
    \E i \in 1..Len(deaths) : deaths[i].name = name

is_likely_restart(deaths, name) ==
    \E i \in 1..Len(deaths) : deaths[i].name = name /\ deaths[i].fresh

RECURSIVE RestartEvents(_, _)
RestartEvents(procs, deaths) ==
    IF procs = <<>>
    THEN <<>>
    ELSE (IF is_likely_restart(deaths, Head(procs).name)
          THEN <<WatcherEvent("process_restart", "info", "anomaly.process_restart",
                              [pid |-> Head(procs).pid, name |-> Head(procs).name])>>
          ELSE <<>>)
         \o RestartEvents(Tail(procs), deaths)

\* ProcessWatcher: a process list arrives in the loop.  One crash event per
\* pid that went, one restart event per new pid whose name died within 10
\* seconds; deaths older than 60 seconds (the oldest `dropped` entries, none
\* of them fresh) are forgotten, and the list becomes process_map
ProcessSampleReturns(w, listing, aged, dropped) ==
    /\ w \in DOMAIN watchers
    /\ watchers[w].kind = "process"
    /\ watchers[w].pc = "sampling"
    /\ aged \in Aged(watchers[w].recent_deaths)
    /\ dropped \in 0..Len(aged)
    /\ \A i \in 1..dropped : ~aged[i].fresh
    /\ LET watcher == watchers[w]
           died == ByPid({ p \in watcher.process_map : p.pid \notin PidsOf(listing) })
           born == ByPid({ p \in listing : p.pid \notin PidsOf(watcher.process_map) })
           deaths == aged \o Deaths(died)
           events == CrashEvents(died) \o RestartEvents(born, deaths)
       IN watchers' = [watchers EXCEPT ![w] =
             [watcher EXCEPT !.published = @ \o events,
                             !.recent_deaths = SubSeq(deaths, dropped + 1, Len(deaths)),
                             !.process_map = listing,
                             !.pc = IF events = <<>> THEN "sleeping" ELSE "publishing"]]
    /\ UNCHANGED <<gateVars, peerVars, handlerVars, busVars, pipeVars, detectVars, worker, orch>>

(***************************************************************************)
(* The handlers of watch mode (uatu/watcher/async_handlers.py) behind the  *)
(* event bus: EventLogger, RateLimiter and InvestigationHandler subscribe  *)
(* in their __init__, and EventBus.publish gathers the handlers of the     *)
(* topic.  The clock of the rate limiter counts half minutes.              *)
(***************************************************************************)
\* the topics each handler subscribes to
LoggerTopics ==
    {"anomaly.cpu", "anomaly.memory", "anomaly.process_crash",
     "anomaly.process_restart", "anomaly.load"}
LimiterTopics ==
    {"anomaly.cpu", "anomaly.memory", "anomaly.process_crash", "anomaly.load"}
InvestigationTopics ==
    {"anomaly.cpu", "anomaly.memory", "anomaly.process_crash", "anomaly.load"}

\* the events the four watchers publish
PublishedEvents ==
    { WatcherEvent(EventType[k], "warning", Topic[k], [current |-> 61, baseline |-> 40]) :
        k \in SignalKinds }
    \cup { WatcherEvent("process_crash", "warning", "anomaly.process_crash", Service),
           WatcherEvent("process_restart", "info", "anomaly.process_restart", Successor) }

\* the 60 seconds of the rolling window, in half minutes
WindowLength == 2

\* RateLimiter.on_event: times not newer than the cutoff go, the time of
\* the event is appended, and the notice is printed when the list is longer
\* than max_events
LimiterOnEvent(l) ==
    LET cutoff == l.clock - WindowLength
        kept == SelectSeq(l.event_times, LAMBDA t : t > cutoff)
        times == Append(kept, l.clock)
    IN [l EXCEPT !.event_times = times,
                 !.received = @ + 1,
                 !.notices = IF Len(times) > MaxPerMinute THEN @ + 1 ELSE @]

\* EventLogger.on_event: _write_event builds the record with
\* severity.string_value before it opens the file; the exception is caught
\* and printed
LoggerOnEvent(g, event) ==
    [g EXCEPT !.delivered = Append(@, event),
              !.lines = IF string_value(event.severity) = "AttributeError"
                        THEN @
                        ELSE Append(@, [type |-> event.type, severity |-> event.severity,
                                        details |-> event.details, newline |-> TRUE])]

\* event_bus.publish(topic, event) by a watcher: the handlers subscribed to
\* the topic are gathered, and each runs its callback
PublishAnomaly(event) ==
    LET test == severity_ge(event.severity, min_severity)
        handled == event.topic \in InvestigationTopics
    IN /\ Len(logger.delivered) < MaxPublished
       /\ logger' = IF event.topic \in LoggerTopics THEN LoggerOnEvent(logger, event)
                                                     ELSE logger
       /\ limiter' = IF event.topic \in LimiterTopics THEN LimiterOnEvent(limiter)
                                                       ELSE limiter
       /\ arrived' = IF handled
                      THEN Append(arrived,
                              [event |-> event,
                               outcome |-> IF test = "TypeError" THEN "TypeError"
                                                                  ELSE "returned"])
                      ELSE arrived
       /\ investigation_queue' = IF handled /\ test = "True"
                                  THEN Append(investigation_queue, event)
                                  ELSE investigation_queue
       /\ UNCHANGED <<gateVars, peerVars, busVars, min_severity, investigations, cache,
                      provider_calls, audit, now, detectVars, taskVars>>

\* half a minute passes
LimiterTick ==
    /\ limiter.clock < MaxClock
    /\ limiter' = [limiter EXCEPT !.clock = @ + 1]
    /\ UNCHANGED <<gateVars, peerVars, busVars, pipeVars, detectVars, taskVars, logger>>

(***************************************************************************)
(* The orchestrator (uatu/watcher/async_core.py): AsyncWatcher.start()     *)
(* sets the baselines and runs every watcher's start() and every handler's *)
(* start() as the tasks of one asyncio.TaskGroup.  The handlers other than *)
(* InvestigationHandler inherit BaseHandler.start, which returns at once.  *)
(***************************************************************************)
\* the positions at which a task has ended
TaskDone == {"returned", "raised", "cancelled"}

\* establish_baseline, then the task group creates its tasks
OrchStart(baseline) ==
    /\ orch.pc = "constructed"
    /\ orch' = [orch EXCEPT !.pc = "group"]
    /\ watchers' = [w \in DOMAIN watchers |->
                      [watchers[w] EXCEPT
                          !.pc = "created",
                          !.baseline = IF watchers[w].kind = "process" THEN 0 ELSE baseline]]
    /\ worker' = "created"
    /\ UNCHANGED <<gateVars, peerVars, handlerVars, busVars, pipeVars, detectVars>>

\* InvestigationHandler.start() begins to run and awaits the queue
WorkerBegin ==
    /\ worker = "created"
    /\ worker' = "waiting"
    /\ UNCHANGED <<gateVars, peerVars, handlerVars, busVars, pipeVars, detectVars, watchers, orch>>

\* the worker takes an event off the queue and creates its investigation task
WorkerTake(event) ==
    /\ worker = "waiting"
    /\ start(event)

\* stop() is called on every watcher and on every handler: the watchers
\* clear _running, BaseHandler.stop does nothing
StopComponents ==
    /\ orch.pc = "group"
    /\ ~orch.stop_requested
    /\ orch' = [orch EXCEPT !.stop_requested = TRUE]
    /\ watchers' = [w \in DOMAIN watchers |-> [watchers[w] EXCEPT !.running = FALSE]]
    /\ UNCHANGED <<gateVars, peerVars, handlerVars, busVars, pipeVars, detectVars, worker>>

\* a task of the group has raised: the group cancels every task that has
\* not ended, and CancelledError ends each at its await
GroupAbort ==
    /\ orch.pc = "group"
    /\ \E w \in DOMAIN watchers : watchers[w].pc = "raised"
    /\ \/ \E w \in DOMAIN watchers : watchers[w].pc \notin TaskDone
       \/ worker \notin TaskDone
    /\ watchers' = [w \in DOMAIN watchers |->
                      IF watchers[w].pc \in TaskDone
                      THEN watchers[w]
                      ELSE [watchers[w] EXCEPT !.pc = "cancelled"]]
    /\ worker' = IF worker \in TaskDone THEN worker ELSE "cancelled"
    /\ UNCHANGED <<gateVars, peerVars, handlerVars, busVars, pipeVars, detectVars, orch>>

\* every task of the group has ended: the group is left, an exception
\* group is caught and printed, and start() returns
OrchReturns ==
    /\ orch.pc = "group"
    /\ \A w \in DOMAIN watchers : watchers[w].pc \in TaskDone
    /\ worker \in TaskDone
    /\ orch' = [orch EXCEPT !.pc = "returned"]
    /\ UNCHANGED <<gateVars, peerVars, handlerVars, busVars, pipeVars, detectVars, watchers, worker>>

(***************************************************************************)
(* Specifications                                                          *)
(***************************************************************************)
\* the gate: one hook call at a time over an allowlist loaded from the file
Next ==
    \/ SetApprovalCallback
    \/ \E input \in ToolInputs : HookStart(1, input)
    \/ \E approved, add \in BOOLEAN, write \in WriteOutcomes :
          CallbackReturns(1, approved, add, write)
    \/ CallbackRaises(1)
    \/ HookDone(1)

Spec == Init /\ [][Next]_vars

\* the gate under concurrent hook calls (the SDK runs hooks as coroutines)
ConcInputs == [tool_name : {ToolBash}, command : {CmdTopB, CmdLsL, CmdEmpty}, url : {NoUrl}]

InitConc ==
    /\ Init
    /\ allowlist = <<>>

NextConc ==
    \/ SetApprovalCallback
    \/ \E c \in CallIds, input \in ConcInputs : HookStart(c, input)
    \/ \E c \in CallIds, approved, add \in BOOLEAN, write \in WriteOutcomes :
          CallbackReturns(c, approved, add, write)
    \/ \E c \in CallIds : CallbackRaises(c)
    \/ \E c \in CallIds : HookDone(c)

SpecConc == InitConc /\ [][NextConc]_vars

\* the allowlist store called directly, from a missing file
InitStore ==
    /\ Init
    /\ allowlist = <<>>
    /\ settings = [uatu_read_only |-> TRUE, uatu_require_approval |-> TRUE,
                   uatu_allow_network |-> FALSE]

NextStore ==
    \/ \E command \in StoreCommands, entry_type \in EntryTypes, write \in WriteOutcomes :
          add_command(command, entry_type, write)
    \/ \E pattern \in StoreCommands \cup {CmdTop}, write \in WriteOutcomes :
          remove_command(pattern, write)
    \/ \E write \in WriteOutcomes : clear(write)

SpecStore == InitStore /\ [][NextStore]_vars

\* two AllowlistManager instances over one allowlist.json, every write succeeding
SharedCommands == {CmdEmpty, CmdTopB, CmdLs, CmdLsL}
SharedTypes == {"auto", "exact"}

NextShared ==
    \/ PeerConstruct
    \/ \E command \in SharedCommands, entry_type \in SharedTypes :
          add_command(command, entry_type, "ok")
    \/ \E command \in SharedCommands, entry_type \in SharedTypes :
          peer_add_command(command, entry_type)

SpecShared == InitStore /\ [][NextShared]_vars

\* the event bus
NextBus ==
    \/ \E event_type \in Topics, handler \in Handlers : subscribe(event_type, handler)
    \/ \E event_type \in Topics, handler \in Handlers : unsubscribe(event_type, handler)
    \/ \E event_type \in Topics : publish(event_type)
    \/ \E i \in 1..MaxSubs, outcome \in HandlerOutcomes : HandlerStart(i, outcome)
    \/ \E i \in 1..MaxSubs, outcome \in HandlerOutcomes : HandlerResume(i, outcome)
    \/ PublishReturns
    \/ PublishDone

SpecBus == InitStore /\ [][NextBus]_vars

\* the settings of a fresh installation
DefaultSettings ==
    [uatu_read_only |-> TRUE, uatu_require_approval |-> TRUE, uatu_allow_network |-> FALSE]

\* the investigation handler given events directly, for every min_severity
InitDispatch ==
    /\ InitGate
    /\ allowlist = <<>>
    /\ settings = DefaultSettings
    /\ InitPeer
    /\ InitHandlers
    /\ InitBus
    /\ min_severity \in Severities
    /\ cache = [k \in {} |-> <<>>]
    /\ InitWatchIdle
    /\ InitDetectIdle
    /\ InitTasksIdle

NextDispatch == \E event \in Events : on_anomaly(event)

SpecDispatch == InitDispatch /\ [][NextDispatch]_vars

\* the investigation tasks over a cache file of earlier sessions
InitInvestigate ==
    /\ InitGate
    /\ allowlist = <<>>
    /\ settings = DefaultSettings
    /\ InitPeer
    /\ InitHandlers
    /\ InitBus
    /\ min_severity = "warning"
    /\ cache \in LoadedCaches
    /\ InitWatchIdle
    /\ InitDetectIdle
    /\ InitTasksIdle

NextInvestigate ==
    \/ Tick
    \/ \E event \in InvestigatedEvents : start(event)
    \/ \E i \in 1..MaxTasks : Investigate(i)
    \/ \E i \in 1..MaxTasks : LogInvestigation(i)

SpecInvestigate == InitInvestigate /\ [][NextInvestigate]_vars

\* the detector called on the state of a watcher that has a baseline or none
InitDetect ==
    /\ InitGate
    /\ allowlist = <<>>
    /\ settings = DefaultSettings
    /\ InitPeer
    /\ InitHandlers
    /\ InitBus
    /\ InitWatch
    /\ InitTasksIdle
    /\ state \in [baseline : {None} \cup {<<b>> : b \in Baselines},
                  current : {None}, history : {<<>>}]
    /\ detected = NoCall

NextDetect ==
    \/ \E snapshot \in Samples(state.history) : add_snapshot(snapshot)
    \/ \E snapshot \in Snapshots : DetectAnomalies(snapshot)

SpecDetect == InitDetect /\ [][NextDetect]_vars

\* the legacy Watcher: baseline samples, the baseline, then the observation loop
InitObserve ==
    /\ InitGate
    /\ allowlist = <<>>
    /\ settings = DefaultSettings
    /\ InitPeer
    /\ InitHandlers
    /\ InitBus
    /\ InitWatch
    /\ InitTasksIdle
    /\ InitDetectIdle

NextObserve ==
    \/ \E snapshot \in ObservedSamples : BaselineSample(snapshot)
    \/ BaselineEstablished
    \/ \E snapshot \in ObservedSamples : Observe(snapshot)

SpecObserve == InitObserve /\ [][NextObserve]_vars

\* one watcher whose start() runs as a task, stopped and given baselines from outside
InitWatcher ==
    /\ InitGate
    /\ allowlist = <<>>
    /\ settings = DefaultSettings
    /\ InitPeer
    /\ InitHandlers
    /\ InitBus
    /\ InitWatch
    /\ InitDetectIdle
    /\ watchers \in { (kind :> [NewWatcher(kind, baseline) EXCEPT !.pc = "created"]) :
                        kind \in SignalKinds, baseline \in WatcherBaselines }
    /\ worker = "none"
    /\ orch = NoOrch

NextWatcher ==
    \E w \in SignalKinds :
        \/ WatcherStart(w)
        \/ WatcherStop(w)
        \/ \E baseline \in WatcherBaselines : SetBaseline(w, baseline)
        \/ \E value \in Readings[w] : SampleReturns(w, value)
        \/ SampleRaises(w)
        \/ PublishAwaited(w)
        \/ Wake(w)

SpecWatcher == InitWatcher /\ [][NextWatcher]_vars

\* the same, the sampling thread, publish and the sleeps completing in the end
SampleCompletes(w) == SampleRaises(w) \/ \E value \in Readings[w] : SampleReturns(w, value)

SpecWatcherFair ==
    /\ SpecWatcher
    /\ \A w \in SignalKinds :
          /\ WF_vars(SampleCompletes(w))
          /\ WF_vars(PublishAwaited(w))
          /\ WF_vars(Wake(w))

\* the orchestrator over a CPU watcher, a process watcher and the investigation handler
OrchEvent == [type |-> "cpu_spike", severity |-> "warning", message |-> "CPU spike"]
OrchListings == {{Service}, {}, {Successor}}

InitOrch ==
    /\ InitGate
    /\ allowlist = <<>>
    /\ settings = DefaultSettings
    /\ InitPeer
    /\ InitHandlers
    /\ InitBus
    /\ InitWatch
    /\ InitDetectIdle
    /\ watchers = ("cpu" :> NewWatcher("cpu", 0)) @@ ("process" :> NewWatcher("process", 0))
    /\ worker = "none"
    /\ orch = NoOrch

NextOrch ==
    \/ \E baseline \in WatcherBaselines : OrchStart(baseline)
    \/ WorkerBegin
    \/ WorkerTake(OrchEvent)
    \/ StopComponents
    \/ GroupAbort
    \/ OrchReturns
    \/ \E w \in {"cpu", "process"} :
          \/ WatcherStart(w)
          \/ SampleRaises(w)
          \/ PublishAwaited(w)
          \/ Wake(w)
    \/ \E value \in Readings["cpu"] : SampleReturns("cpu", value)
    \/ \E listing \in OrchListings : ListingReturns("process", listing)
    \/ ListingRaises("process")
    \/ \E listing \in OrchListings, aged \in Aged(watchers["process"].recent_deaths),
          dropped \in 0..(2 * MaxIterations) :
          ProcessSampleReturns("process", listing, aged, dropped)

SpecOrch == InitOrch /\ [][NextOrch]_vars

\* the handlers behind the bus, given the events of the watchers over time
InitHandle ==
    /\ InitGate
    /\ allowlist = <<>>
    /\ settings = DefaultSettings
    /\ InitPeer
    /\ InitHandlers
    /\ InitBus
    /\ min_severity \in Severities
    /\ cache = [k \in {} |-> <<>>]
    /\ InitWatchIdle
    /\ InitDetectIdle
    /\ InitTasksIdle

NextHandle ==
    \/ \E event \in PublishedEvents : PublishAnomaly(event)
    \/ LimiterTick

SpecHandle == InitHandle /\ [][NextHandle]_vars

\* the gate with approval not required and the network not allowed, asked
\* about commands that chain a network command after a safe one
ChainedInputs ==
    [tool_name : {ToolBash},
     command : {CmdTopSemiCurl, CmdTopAndCurl, CmdLsSemiCurl, CmdTopPipeCurl, CmdCurl, CmdTopB},
     url : {NoUrl}]

InitChained ==
    /\ Init
    /\ settings = [uatu_read_only |-> FALSE, uatu_require_approval |-> FALSE,
                   uatu_allow_network |-> FALSE]

NextChained ==
    \/ SetApprovalCallback
    \/ \E input \in ChainedInputs : HookStart(1, input)
    \/ \E approved, add \in BOOLEAN, write \in WriteOutcomes :
          CallbackReturns(1, approved, add, write)
    \/ CallbackRaises(1)
    \/ HookDone(1)

SpecChained == InitChained /\ [][NextChained]_vars

\* a process watcher on its own, its start() run as a task and stopped from outside
ProcessListings == {{}, {Service}, {Successor}, {Successor, Third}, {Service, Cron}, {Cron}}

InitProcess ==
    /\ InitGate
    /\ allowlist = <<>>
    /\ settings = DefaultSettings
    /\ InitPeer
    /\ InitHandlers
    /\ InitBus
    /\ InitWatch
    /\ InitDetectIdle
    /\ watchers = ("process" :> [NewWatcher("process", 0) EXCEPT !.pc = "created"])
    /\ worker = "none"
    /\ orch = NoOrch

NextProcess ==
    \/ WatcherStart("process")
    \/ WatcherStop("process")
    \/ \E listing \in ProcessListings : ListingReturns("process", listing)
    \/ ListingRaises("process")
    \/ \E listing \in ProcessListings, aged \in Aged(watchers["process"].recent_deaths),
          dropped \in 0..(2 * MaxIterations) :
          ProcessSampleReturns("process", listing, aged, dropped)
    \/ SampleRaises("process")
    \/ PublishAwaited("process")
    \/ Wake("process")

SpecProcess == InitProcess /\ [][NextProcess]_vars

(***************************************************************************)
(* Properties of the permission gate                                       *)
(***************************************************************************)
\* the commands of Commands that match a suspicious pattern, one for each
\* pattern ("top |nc2" matches none: \b fails after "nc")
SuspiciousCommands ==
    {CmdTopPipeCurl, CmdTopPipeWget, CmdTopPipeNc, CmdTopPipeSsh,
     CmdTopGrepPassword, CmdTopGrepSecret, CmdTopGrepKey,
     CmdTopBase64, CmdTopXxd, CmdTopSubst}

\* the commands of Commands whose first token is a blocked network command
NetworkCommands == {CmdCurl}

Started(c) == calls[c].pc # "idle"
Done(c) == calls[c].pc = "done"
OnBash(c) == calls[c].tool_name \in BashToolNames

MsgReadOnly == "Bash commands disabled by UATU_READ_ONLY setting"
MsgNetwork == "Network command blocked for security"
MsgAuto == "Command auto-allowed (allowlisted)"

C1_State ==
    \A c \in CallIds :
        (settings.uatu_read_only /\ Started(c) /\ OnBash(c)) =>
            /\ Done(c)
            /\ calls[c].decision = "deny"
            /\ calls[c].message = MsgReadOnly
            /\ ~calls[c].invoked
            /\ ~calls[c].consulted

C1_Frame ==
    settings.uatu_read_only => (allowlist' = allowlist /\ file' = file)

\* C1: with UATU_READ_ONLY true every call of a Bash tool (a tool name that
\* contains "bash" in any case) is denied, for every command, allowlist and
\* value of the other two flags; the approval callback is not invoked and the
\* allowlist is neither consulted nor changed.
C1_ReadOnlyDeniesBash == []C1_State /\ [][C1_Frame]_vars

\* C1 witness: read-only mode denies a Bash-tool call whose command the
\* allowlist matches, with a callback configured
C1_Witness ==
    \E c \in CallIds :
        /\ settings.uatu_read_only /\ ~settings.uatu_require_approval
        /\ approval_callback
        /\ Done(c) /\ calls[c].tool_name = ToolMcpBash
        /\ is_allowed(allowlist, calls[c].command)
        /\ calls[c].decision = "deny"

\* rule (b) of C2: the allowlist may answer for the command
AllowlistMayAnswer(command) ==
    /\ ~settings.uatu_require_approval
    /\ ~IsSuspicious(command)
    /\ is_allowed(allowlist, command)

C3_SuspiciousNeverAutoAllowed ==
    \A c \in CallIds :
        (Done(c) /\ OnBash(c) /\ calls[c].command \in SuspiciousCommands) =>
            /\ calls[c].message # MsgAuto
            /\ ~calls[c].consulted
            /\ calls[c].decision = "allow" => (calls[c].invoked /\ calls[c].approved)
            /\ ~calls[c].invoked => calls[c].decision = "deny"

\* C3 witness: approval is not required, an allowlist entry matches the
\* suspicious command, no callback is configured, and the call is denied
C3_Witness ==
    \E c \in CallIds :
        /\ Done(c) /\ OnBash(c) /\ calls[c].command \in SuspiciousCommands
        /\ ~settings.uatu_read_only /\ ~settings.uatu_require_approval
        /\ is_allowed(allowlist, calls[c].command)
        /\ ~calls[c].invoked
        /\ calls[c].decision = "deny"

\* C4: outside read-only mode a command whose first token is a blocked
\* network command is denied without invoking the callback when
\* UATU_ALLOW_NETWORK is false, whatever the allowlist and
\* UATU_REQUIRE_APPROVAL are; when UATU_ALLOW_NETWORK is true the network rule
\* does not decide and a later rule does.
C4_NetworkBlocked ==
    \A c \in CallIds :
        (Started(c) /\ OnBash(c) /\ calls[c].command \in NetworkCommands
           /\ ~settings.uatu_read_only) =>
            IF ~settings.uatu_allow_network
            THEN /\ Done(c)
                 /\ calls[c].decision = "deny"
                 /\ calls[c].message = MsgNetwork
                 /\ ~calls[c].invoked
            ELSE /\ calls[c].message # MsgNetwork
                 /\ (Done(c) /\ ~calls[c].invoked) =>
                       IF AllowlistMayAnswer(calls[c].command)
                       THEN calls[c].decision = "allow" /\ calls[c].message = MsgAuto
                       ELSE /\ calls[c].decision = "deny"
                            /\ calls[c].message = "No approval callback configured"

\* C4 witness: the network rule denies a command that the allowlist matches
\* while approval is not required and a callback is configured
C4_Witness ==
    \E c \in CallIds :
        /\ Done(c) /\ OnBash(c) /\ calls[c].command \in NetworkCommands
        /\ ~settings.uatu_read_only /\ ~settings.uatu_allow_network
        /\ ~settings.uatu_require_approval
        /\ approval_callback
        /\ is_allowed(allowlist, calls[c].command)
        /\ calls[c].decision = "deny"

\* C5: the gate fails closed: whenever something raises inside the hook, the
\* hook returns deny with reason "internal error" and no exception reaches
\* the caller.
C5_FailsClosed ==
    \A c \in CallIds :
        Done(c) =>
            /\ calls[c].decision # "exception"
            /\ calls[c].raised =>
                  (calls[c].decision = "deny" /\ calls[c].message = "internal error")

\* the hook starts for call c in this step
Starts(c) == calls[c].pc = "idle" /\ calls'[c].pc # "idle"

\* the callback's result reaches call c in this step
Resumes(c) == calls[c].pc = "awaiting" /\ calls'[c].pc = "done"

C6_Step ==
    \A c \in CallIds :
        (/\ Starts(c)
         /\ calls'[c].tool_name \in BashToolNames
         /\ ~settings.uatu_read_only
         /\ ~settings.uatu_require_approval
         /\ calls'[c].command \notin SuspiciousCommands
         /\ ~(calls'[c].command \in NetworkCommands /\ ~settings.uatu_allow_network)
         /\ is_allowed(allowlist, calls'[c].command)) =>
            /\ calls'[c].pc = "done"
            /\ calls'[c].decision = "allow"
            /\ calls'[c].message = MsgAuto
            /\ ~calls'[c].invoked

\* C6: outside read-only mode and with UATU_REQUIRE_APPROVAL false, a command
\* that is not suspicious, is not denied by the network rule and for which
\* is_allowed holds is allowed with the auto-allowed message and without
\* invoking the callback.
C6_AutoAllow == [][C6_Step]_vars

\* C6 witness: "top -b" is auto-allowed by the base entry "top" while a
\* callback is configured
C6_Witness ==
    \E c \in CallIds :
        /\ Done(c) /\ OnBash(c) /\ calls[c].command = CmdTopB
        /\ approval_callback
        /\ \E i \in 1..Len(allowlist) :
              allowlist[i] = [pattern |-> CmdTop, type |-> "base"]
        /\ calls[c].decision = "allow"
        /\ calls[c].message = MsgAuto
        /\ ~calls[c].invoked

\* C7: at most one approval-callback invocation is in progress at any time.
C7_OnePromptAtATime ==
    Cardinality({c \in CallIds : calls[c].pc = "awaiting"}) <= 1

\* the entry add(command) selects: base and the first token when that token
\* is a safe base command, else exact and the whole command
AutoEntry(command) ==
    IF get_base_command(command) \in SAFE_BASE_COMMANDS
    THEN [pattern |-> get_base_command(command), type |-> "base"]
    ELSE [pattern |-> command, type |-> "exact"]

\* the effect of allowlist.add(command) on the list
AddEffect(command) ==
    IF IsBlank(command) \/ AlreadyExists(allowlist, AutoEntry(command))
    THEN allowlist' = allowlist /\ file' = file
    ELSE /\ allowlist' = Append(allowlist, AutoEntry(command))
         /\ file' \in {file, [exists |-> TRUE, commands |-> allowlist']}

C8_Step ==
    /\ (allowlist' # allowlist \/ file' # file) =>
          \E c \in CallIds :
              Resumes(c) /\ calls'[c].approved /\ calls'[c].add_to_allowlist
    /\ \A c \in CallIds :
          (Resumes(c) /\ calls'[c].approved /\ calls'[c].add_to_allowlist) =>
              AddEffect(calls[c].command)

\* C8: the hook changes the allowlist and its file only when the callback
\* returns (approved, add_to_allowlist) = (true, true), and then as
\* add(command) with automatic type selection does; every other outcome
\* leaves both unchanged.
C8_StoreFrame == [][C8_Step]_vars

\* C8 witness: an approval with add_to_allowlist for "top -b" has appended
\* the base entry "top" and saved it
C8_Witness ==
    \E c \in CallIds :
        /\ Done(c) /\ calls[c].command = CmdTopB
        /\ calls[c].approved /\ calls[c].add_to_allowlist
        /\ calls[c].decision = "allow"
        /\ allowlist # <<>>
        /\ allowlist[Len(allowlist)] = [pattern |-> CmdTop, type |-> "base"]
        /\ file = [exists |-> TRUE, commands |-> allowlist]

\* C9: a network tool (WebFetch, WebSearch) is allowed only if the hostname
\* of its URL is in the domain allowlist or the approval callback was invoked
\* for the call and approved.
C9_NetworkToolGate ==
    \A c \in CallIds :
        (Done(c) /\ calls[c].tool_name \in NETWORK_TOOLS
           /\ calls[c].decision = "allow") =>
            \/ extract_domain(calls[c].url) \in network_allowlist
            \/ calls[c].invoked /\ calls[c].approved

C10_Step ==
    \A x \in StoreCommands, t \in EntryTypes, w \in WriteOutcomes :
        (add_command(x, t, w) /\ lastOp'.result = "ok") =>
            is_allowed(allowlist', x)

\* C10: for every non-empty command x and every type argument, after add(x)
\* succeeds is_allowed(x) holds.
C10_AddThenAllowed == [][C10_Step]_vars

(***************************************************************************)
(* Properties of the allowlist store                                       *)
(***************************************************************************)
\* the matching rule of one entry, by type
C11_Matches(entry, command) ==
    \/ /\ entry.type = "base"
       /\ get_base_command(command) = entry.pattern
    \/ /\ entry.type = "exact"
       /\ Len(command) = Len(entry.pattern)
       /\ \A k \in 1..Len(command) : command[k] = entry.pattern[k]
    \/ /\ entry.type = "pattern"
       /\ \/ command = entry.pattern
          \/ /\ Len(command) > Len(entry.pattern)
             /\ SubSeq(command, 1, Len(entry.pattern)) = entry.pattern
             /\ command[Len(entry.pattern) + 1] = " "

\* C11: is_allowed(command) is true iff some stored entry matches the command
\* (base: first token equals the pattern; exact: equal to the pattern; prefix,
\* stored with type "pattern": equal to the pattern or beginning with the
\* pattern followed by a space); an empty store allows nothing.
C11_AllowedIffSomeEntryMatches ==
    \A command \in Commands :
        /\ is_allowed(allowlist, command) <=>
              \E i \in 1..Len(allowlist) : C11_Matches(allowlist[i], command)
        /\ allowlist = <<>> => ~is_allowed(allowlist, command)

C11_Witness ==
    /\ lastOp.op = "add"
    /\ \E i \in 1..Len(allowlist) : allowlist[i] = [pattern |-> CmdLs, type |-> "pattern"]
    /\ is_allowed(allowlist, CmdLsL)
    /\ is_allowed(allowlist, CmdLs)
    /\ ~is_allowed(allowlist, CmdTopB)

C12_Step ==
    \A p \in StoreCommands \cup {CmdTop}, w \in WriteOutcomes :
        (lastOp'.op = "remove" /\ remove_command(p, w)) =>
            LET matching == {i \in 1..Len(allowlist) : allowlist[i].pattern = p}
            IN /\ allowlist' = SelectSeq(allowlist, LAMBDA e : e.pattern # p)
               /\ lastOp'.result = "True" => matching # {}
               /\ (matching # {} /\ w = "ok") => lastOp'.result = "True"
               /\ lastOp'.result = "False" <=> matching = {}
               /\ matching = {} => (allowlist' = allowlist /\ file' = file)

C13_NoDuplicates ==
    \A i, j \in 1..Len(allowlist) :
        (allowlist[i].pattern = allowlist[j].pattern
           /\ allowlist[i].type = allowlist[j].type) => i = j

\* the write outcome a step had: a failed write is counted in oserrors
WriteOutcomeOfStep == IF oserrors' = oserrors THEN "ok" ELSE "oserror"

\* a step that is not a silent no-op is not an add of a stored pair
C13_Step ==
    \/ /\ allowlist' = allowlist
       /\ file' = file
       /\ lastOp'.result = "ok"
    \/ lastOp'.op # "add"
    \/ ~ \E x \in StoreCommands, t \in EntryTypes :
            /\ ~IsBlank(x)
            /\ \E i \in 1..Len(allowlist) : allowlist[i] = ResolveEntry(x, t)
            /\ add_command(x, t, WriteOutcomeOfStep)

\* C13: after any sequence of add, remove and clear from an empty store no two
\* entries share the pair (pattern, type), and an add whose resolved pair is
\* already stored is a silent no-op that changes neither memory nor the file.
C13_UniquePairs == []C13_NoDuplicates /\ [][C13_Step]_vars

C13_Witness ==
    /\ lastOp.op = "add"
    /\ lastOp.log = "already in allowlist"
    /\ Len(allowlist) = MaxEntries
    /\ allowlist[1].pattern = allowlist[2].pattern

Entries(commands) == {commands[i] : i \in 1..Len(commands)}

\* C14: with two store instances sharing one allowlist file, after add(a) in
\* one and add(b) in the other, in any interleaving, the file contains both
\* entries (each mutation is a read-modify-write of the file under a lock).
C14_NoLostUpdate ==
    (/\ peer.constructed
     /\ lastOp.op = "add" /\ lastOp.result = "ok"
     /\ peer.result = "ok") =>
        Entries(allowlist) \cup Entries(peer.commands) \subseteq Entries(file.commands)

(***************************************************************************)
(* Properties of the event bus                                             *)
(***************************************************************************)
PublishOver == pub.pc \in {"returned", "raised"}

C15_State ==
    PublishOver =>
        \A h \in Handlers :
            pub.received[h] = IF pub.registered[h] > 0 THEN 1 ELSE 0

C15_Frame ==
    \A t \in Topics : publish(t) => subscribers' = subscribers

\* C15: for every subscriber table reachable by subscribe and unsubscribe
\* (the same handler subscribed twice to one topic included), a publish
\* delivers the event exactly once to every handler subscribed to that topic
\* and to no handler subscribed only to other topics, and a publish to a
\* topic without subscribers completes normally and leaves the table unchanged.
C15_ExactlyOncePerHandler == []C15_State /\ [][C15_Frame]_vars

\* the tasks of the publish that ran handler h
TasksOf(h) == {i \in 1..Len(pub.tasks) : pub.tasks[i].handler = h}

C17_PublishAwaitsAll ==
    PublishOver => \A i \in 1..Len(pub.tasks) : pub.tasks[i].state \in {"returned", "raised"}

C17_Witness ==
    /\ pub.pc = "returned"
    /\ Len(pub.tasks) >= 2
    /\ pub.overlapped
    /\ \A i \in 1..Len(pub.tasks) : pub.tasks[i].state = "returned"

(***************************************************************************)
(* Properties of the investigation pipeline                                *)
(***************************************************************************)
\* the order of the severities: INFO < WARNING < ERROR < CRITICAL
C18_Rank(severity) ==
    CASE severity = "info" -> 0
      [] severity = "warning" -> 1
      [] severity = "error" -> 2
      [] severity = "critical" -> 3

AtLeastMinSeverity(event) == C18_Rank(event.severity) >= C18_Rank(min_severity)

\* C18: for every sequence of events given to on_anomaly and every
\* min_severity, the investigation queue holds exactly the events with
\* severity >= min_severity, in arrival order, and no investigation is
\* started for an event below min_severity.
C18_QueueIsFilteredArrivals ==
    /\ investigation_queue =
          SelectSeq([i \in 1..Len(arrived) |-> arrived[i].event], AtLeastMinSeverity)
    /\ \A i \in 1..Len(investigations) : AtLeastMinSeverity(investigations[i].event)

TaskOver(task) == task.pc \in {"done", "failed"}

\* C19: two events with the same type and message investigated within one
\* hour, the fingerprint not being cached when the first is investigated,
\* cause exactly one provider call and exactly two audit records, in every
\* interleaving of the two investigation tasks.
C19_OneProviderCallTwoRecords ==
    \A e \in InvestigatedEvents :
        (/\ Len(investigations) = 2
         /\ \A i \in 1..2 : investigations[i].event = e /\ TaskOver(investigations[i])
         /\ \E i \in 1..2 : investigations[i].cached # "True"
         /\ now <= 1) =>
            /\ provider_calls = 1
            /\ Len(audit) = 2

C20_Step ==
    \A i \in 1..MaxTasks :
        (Investigate(i) /\ investigations'[i].cached = "True") =>
            LET key == get_cache_key(investigations[i].event)
            IN /\ cache'[key].count = cache[key].count + 1
               /\ cache'[key].timestamp = cache[key].timestamp
               /\ investigations'[i].cache_count = cache'[key].count

\* C20: on a cache hit the entry's count is incremented and its timestamp
\* is left unchanged, and the result of the hit carries cached=true with
\* cache_count equal to the incremented count.
C20_HitIncrementsCount == [][C20_Step]_vars

\* the events of a list that have the given type and severity
Count(events, type, severity) ==
    Cardinality({ i \in 1..Len(events) :
                    events[i].type = type /\ events[i].severity = severity })

CountType(events, type) ==
    Cardinality({ i \in 1..Len(events) : events[i].type = type })

\* a step that is a call of detect_anomalies on a state that has a baseline
DetectStep == detected' # detected /\ state.baseline # None

\* C23: under a baseline, detect_anomalies returns exactly one CPU_SPIKE
\* CRITICAL when cpu >= 90, exactly one CPU_SPIKE WARNING when cpu < 90 and
\* cpu > 1.5 x the baseline's cpu, and no CPU_SPIKE otherwise; likewise
\* MEMORY_SPIKE with 95 and 1.3; never two events of one of the two types.
C23_Step ==
    DetectStep =>
        LET s == detected'.snapshot[1]
            b == state.baseline[1]
            out == detected'.anomalies
        IN /\ Count(out, "cpu_spike", "critical") = (IF s.cpu_percent >= 90 THEN 1 ELSE 0)
           /\ Count(out, "cpu_spike", "warning")
                = (IF s.cpu_percent < 90 /\ 2 * s.cpu_percent > 3 * b.cpu_percent
                   THEN 1 ELSE 0)
           /\ CountType(out, "cpu_spike") <= 1
           /\ Count(out, "memory_spike", "critical")
                = (IF s.memory_percent >= 95 THEN 1 ELSE 0)
           /\ Count(out, "memory_spike", "warning")
                = (IF s.memory_percent < 95 /\ 10 * s.memory_percent > 13 * b.memory_percent
                   THEN 1 ELSE 0)
           /\ CountType(out, "memory_spike") <= 1

C23_SpikeEvents == [][C23_Step]_vars

\* a call that returned a critical CPU spike next to a memory warning
C23_Witness ==
    /\ detected.called
    /\ state.baseline # None
    /\ Count(detected.anomalies, "cpu_spike", "critical") = 1
    /\ Count(detected.anomalies, "memory_spike", "warning") = 1

\* the snapshot is within both ratios of the baseline
WithinRatios(s, b) ==
    /\ 10 * s.cpu_percent <= 15 * b.cpu_percent
    /\ 10 * s.memory_percent <= 13 * b.memory_percent

\* no listed process is a zombie, and none is a high-resource process whose
\* pid the previous snapshot did not list
NoProcessCondition(st, s) ==
    LET procs == TopProcesses(s)
        previous == IF st.current = None THEN {} ELSE Pids(st.current[1])
    IN \A i \in 1..Len(procs) :
          /\ ~is_zombie(procs[i])
          /\ ~(procs[i].pid \notin previous
               /\ (procs[i].cpu_percent > 20 \/ procs[i].memory_mb > 500))

\* the consecutive deltas of memory_used_mb among the six most recent samples
\* that are strictly positive
Rising(history) ==
    LET recent == LastN(history, 6)
    IN Cardinality({ i \in 2..Len(recent) :
                       recent[i].memory_used_mb > recent[i - 1].memory_used_mb })

\* C24, as stated: for every baseline, history and snapshot within both
\* ratios and free of zombie and new-process conditions, detect_anomalies
\* returns the empty list.
C24_StepAsStated ==
    (DetectStep /\ WithinRatios(detected'.snapshot[1], state.baseline[1])
                /\ NoProcessCondition(state, detected'.snapshot[1]))
        => detected'.anomalies = <<>>

C24_AsStated == [][C24_StepAsStated]_vars

\* C24, amended: for every baseline, history and snapshot within both
\* ratios, below both critical levels (cpu < 90, memory < 95), with fewer
\* than six samples in the history or fewer than four rising deltas among
\* the six most recent, and free of zombie and new-process conditions,
\* detect_anomalies returns the empty list.
C24_Step ==
    (DetectStep /\ WithinRatios(detected'.snapshot[1], state.baseline[1])
                /\ detected'.snapshot[1].cpu_percent < 90
                /\ detected'.snapshot[1].memory_percent < 95
                /\ (Len(state.history) < 6 \/ Rising(state.history) < 4)
                /\ NoProcessCondition(state, detected'.snapshot[1]))
        => detected'.anomalies = <<>>

C24_QuietWithinThresholds == [][C24_Step]_vars

\* a call at both ratio boundaries over a full, flat history that returned nothing
C24_Witness ==
    /\ detected.called
    /\ state.baseline # None
    /\ 10 * detected.snapshot[1].cpu_percent = 15 * state.baseline[1].cpu_percent
    /\ 10 * detected.snapshot[1].memory_percent = 13 * state.baseline[1].memory_percent
    /\ Len(state.history) >= 6
    /\ Rising(state.history) = 0
    /\ detected.anomalies = <<>>

\* C25: under a baseline, a MEMORY_LEAK WARNING is returned exactly when the
\* history holds at least 6 samples and at least 4 of the 5 consecutive
\* memory_used_mb deltas among the 6 most recent are strictly positive.
C25_Step ==
    DetectStep =>
        /\ CountType(detected'.anomalies, "memory_leak")
             = Count(detected'.anomalies, "memory_leak", "warning")
        /\ (Count(detected'.anomalies, "memory_leak", "warning") >= 1)
             <=> (Len(state.history) >= 6 /\ Rising(state.history) >= 4)

C25_LeakAtFourOfFive == [][C25_Step]_vars

\* C26: under a baseline, for a snapshot whose top lists include a process
\* in state 'Z', exactly one ZOMBIE_PROCESS WARNING is returned for that
\* process, in whichever list or lists it appears and whether or not an
\* earlier snapshot exists.
C26_Step ==
    DetectStep =>
        LET procs == TopProcesses(detected'.snapshot[1])
            out == detected'.anomalies
        IN \A i \in 1..Len(procs) :
              procs[i].state = StateZ =>
                 Cardinality({ j \in 1..Len(out) :
                                 /\ out[j].type = "zombie_process"
                                 /\ out[j].severity = "warning"
                                 /\ out[j].pid = procs[i].pid }) = 1

C26_OneEventPerZombie == [][C26_Step]_vars

\* the investigation tasks that were created and have not ended
InFlight == { i \in 1..Len(investigations) : ~TaskOver(investigations[i]) }

InvestigateRaised(i) ==
    /\ i \in 1..Len(investigations)
    /\ investigations[i].pc = "snapshot"
    /\ investigations'[i].pc = "failed"

C22_Step ==
    /\ \A i \in 1..MaxTasks :
          InvestigateRaised(i) =>
             /\ cache' = cache
             /\ investigation_queue' = investigation_queue
             /\ Len(investigations') = Len(investigations)
    /\ \A i \in 1..Len(investigations) :
          investigations[i].pc = "failed" => investigations'[i] = investigations[i]

\* after a failure start() still creates a task for whichever event comes next
C22_WorkerRuns ==
    ((\E i \in 1..Len(investigations) : investigations[i].pc = "failed")
        /\ Len(investigations) < MaxTasks)
    => \A event \in InvestigatedEvents : ENABLED start(event)

Over(watcher, value) ==
    /\ watcher.baseline > 0
    /\ value * 10 > watcher.threshold_multiplier * watcher.baseline

\* a step in which the sampling call of watcher w returned and the test was made
Tested(w) ==
    /\ watchers[w].pc = "sampling"
    /\ watchers'[w].pc \in {"publishing", "sleeping"}

C27_Step ==
    \A w \in SignalKinds :
        w \in DOMAIN watchers =>
            /\ Tested(w) =>
                 /\ Over(watchers[w], watchers'[w].sampled)
                      => Len(watchers'[w].published) = Len(watchers[w].published) + 1
                 /\ ~Over(watchers[w], watchers'[w].sampled)
                      => watchers'[w].published = watchers[w].published
            /\ ~Tested(w) => watchers'[w].published = watchers[w].published

\* C27: a CPU, memory or load watcher publishes in a sampling iteration
\* exactly when its baseline is > 0 and the sampled value is strictly above
\* baseline x multiplier; with baseline 0 it publishes nothing until the
\* baseline is updated.
C27_PublishesIffOver == [][C27_Step]_vars

\* a CPU watcher that published in one iteration and, reading exactly
\* baseline x multiplier, did not publish in the next
C27_Witness ==
    \E w \in DOMAIN watchers :
        /\ watchers[w].kind = "cpu"
        /\ watchers[w].baseline = 40
        /\ watchers[w].iterations = 2
        /\ watchers[w].sampled = 60
        /\ watchers[w].pc = "sleeping"
        /\ Len(watchers[w].published) = 1

\* once stop() has cleared the flag of a watcher whose loop is running, no
\* further iteration begins, and a further stop() changes nothing
C28_Step ==
    \A w \in SignalKinds :
        w \in DOMAIN watchers =>
            /\ (watchers[w].pc # "created" /\ ~watchers[w].running)
                  => watchers'[w].iterations = watchers[w].iterations
            /\ (~watchers[w].running /\ WatcherStop(w)) => watchers' = watchers

\* start() returns after the iteration in progress, back-off included
C28_Returns ==
    \A w \in SignalKinds :
        (w \in DOMAIN watchers /\ watchers[w].pc # "created" /\ ~watchers[w].running)
           ~> (w \in DOMAIN watchers /\ watchers[w].pc = "returned")

\* C28: if stop() is called while a watcher's start() loop is running,
\* start() returns after at most the iteration in progress, also when that
\* iteration is in its error back-off, and calling stop() again has no
\* further effect.
C28_StopEndsStart == [][C28_Step]_vars /\ C28_Returns

\* a watcher stopped in its loop whose start() has returned
C28_Witness ==
    \E w \in DOMAIN watchers :
        /\ watchers[w].pc = "returned"
        /\ ~watchers[w].running
        /\ watchers[w].iterations >= 1

\* C29: the failure of one watcher task (an exception of its sampling, the
\* first process listing of ProcessWatcher included) does not stop or
\* cancel any other watcher task or handler task.
C29_FailureContained ==
    \A w \in DOMAIN watchers :
        watchers[w].pc = "raised" =>
            /\ \A v \in DOMAIN watchers : watchers[v].pc # "cancelled"
            /\ worker # "cancelled"

C30_Step ==
    orch.stop_requested =>
        /\ \A w \in DOMAIN watchers :
              watchers[w].pc # "created"
                 => watchers'[w].iterations = watchers[w].iterations
        /\ Len(investigations') = Len(investigations)

\* C30: after a stop request every watcher loop that was running begins no
\* further iteration and the investigation worker takes no further event
\* (so that the task group can end and start() can return).
C30_StopCascades == [][C30_Step]_vars

\* the pids of the top lists of a sample that the sample before did not list
\* and whose process takes more than 20% of a core or more than 500 MB
NewHeavyPids(s, prev) ==
    { pid \in Pids(s) \ Pids(prev) :
        \E i \in 1..Len(TopProcesses(s)) :
            /\ TopProcesses(s)[i].pid = pid
            /\ (TopProcesses(s)[i].cpu_percent > 20 \/ TopProcesses(s)[i].memory_mb > 500) }

\* an iteration of the observation loop, after a sample was taken before
ObserveStep ==
    /\ state.baseline # None
    /\ state.current # None
    /\ detected'.called
    /\ <<state, detected>>' # <<state, detected>>

\* C33: in the observation loop of Watcher (take a sample, add it to the
\* state, run the detector), a sample whose top lists hold a pid the sample
\* before did not list, of a process with cpu > 20% or memory > 500 MB,
\* yields a NEW_PROCESS/INFO event for that pid.
C33_Step ==
    ObserveStep =>
        \A pid \in NewHeavyPids(detected'.snapshot[1], state.current[1]) :
            \E i \in 1..Len(detected'.anomalies) :
                detected'.anomalies[i] = AnomalyEvent("new_process", "info", pid)

C33_NewProcessInLoop == [][C33_Step]_vars

\* C34: after any sequence of add_snapshot calls the history holds the most
\* recent min(n, max_history) snapshots in insertion order (the oldest goes on
\* overflow), is never longer than max_history, and current is its last
\* element.
C34_Step ==
    state'.history # state.history \/ state'.current # state.current =>
        LET s == state'.current[1]
            before == state.history
        IN state'.history =
             IF Len(before) < MaxHistory
             THEN before \o <<s>>
             ELSE SubSeq(before, 2, Len(before)) \o <<s>>

C34_State ==
    /\ Len(state.history) <= MaxHistory
    /\ state.history # <<>> => state.current = <<state.history[Len(state.history)]>>
    /\ state.history = <<>> => state.current = None

C34_RingBuffer == []C34_State /\ [][C34_Step]_vars

\* the history is full and its oldest sample differs from its newest
C34_Witness ==
    /\ Len(state.history) = MaxHistory
    /\ state.history[1].memory_used_mb < state.history[MaxHistory].memory_used_mb
    /\ state.history[1].memory_used_mb > 1

\* the events a step of the process watcher added to those it published
NewEvents(w) ==
    SubSeq(watchers'[w].published, Len(watchers[w].published) + 1,
           Len(watchers'[w].published))

\* the events of a list with the given type, topic and pid
EventsOf(events, type, topic, pid) ==
    Cardinality({ i \in 1..Len(events) :
                    /\ events[i].type = type
                    /\ events[i].topic = topic
                    /\ events[i].details.pid = pid })

\* a step in which a process list arrived in the loop of the process watcher
ProcessSampled(w) ==
    /\ watchers[w].kind = "process"
    /\ watchers[w].pc = "sampling"
    /\ watchers'[w].pc \in {"publishing", "sleeping"}

\* a process of that name died less than 10 seconds before this sample
DiedWithinTen(w, name) ==
    \E i \in 1..Len(watchers'[w].recent_deaths) :
        /\ watchers'[w].recent_deaths[i].name = name
        /\ watchers'[w].recent_deaths[i].fresh

\* C35: for each sample after the first, ProcessWatcher publishes exactly
\* one PROCESS_CRASH on anomaly.process_crash for every pid of the sample
\* before that is absent now, and a PROCESS_RESTART on
\* anomaly.process_restart for a new pid iff a process of the same name died
\* within the preceding 10 s; processes present at start-up and pids present in
\* both samples produce no event.
C35_Step ==
    \A w \in DOMAIN watchers :
        /\ ProcessSampled(w) =>
              LET prior == watchers[w].process_map
                  listed == watchers'[w].process_map
                  events == NewEvents(w)
              IN /\ \A p \in prior :
                       EventsOf(events, "process_crash", "anomaly.process_crash", p.pid)
                         = (IF p.pid \in PidsOf(listed) THEN 0 ELSE 1)
                 /\ \A p \in listed :
                       EventsOf(events, "process_restart", "anomaly.process_restart", p.pid)
                         = (IF p.pid \notin PidsOf(prior) /\ DiedWithinTen(w, p.name)
                            THEN 1 ELSE 0)
                 /\ \A i \in 1..Len(events) :
                       \/ /\ events[i].type = "process_crash"
                          /\ events[i].topic = "anomaly.process_crash"
                          /\ events[i].details.pid \in PidsOf(prior) \ PidsOf(listed)
                       \/ /\ events[i].type = "process_restart"
                          /\ events[i].topic = "anomaly.process_restart"
                          /\ events[i].details.pid \in PidsOf(listed) \ PidsOf(prior)
        /\ (watchers[w].kind = "process" /\ ~ProcessSampled(w))
              => watchers'[w].published = watchers[w].published

C35_CrashAndRestartEvents == [][C35_Step]_vars

\* after a crash and a restart of nginx, a later nginx pid appeared once the
\* death was more than 10 seconds old, and no event was published for it
C35_Witness ==
    /\ "process" \in DOMAIN watchers
    /\ watchers["process"].process_map = {Successor, Third}
    /\ watchers["process"].iterations = 2
    /\ watchers["process"].pc = "sleeping"
    /\ Len(watchers["process"].published) = 2
    /\ watchers["process"].published[1].type = "process_crash"
    /\ watchers["process"].published[2].type = "process_restart"

\* C40: each recorded death accounts for at most one PROCESS_RESTART event:
\* the process watcher never published more restart events than crash
\* events (two new pids of the name of one dead process do not both yield
\* a restart).
C40_OneRestartPerDeath ==
    \A w \in DOMAIN watchers :
        \A name \in ProcessNames :
            Cardinality({ i \in 1..Len(watchers[w].published) :
                            /\ watchers[w].published[i].type = "process_restart"
                            /\ watchers[w].published[i].details.name = name })
              <= Cardinality({ i \in 1..Len(watchers[w].published) :
                                 /\ watchers[w].published[i].type = "process_crash"
                                 /\ watchers[w].published[i].details.name = name })

\* C39: a stop request is never lost: once stop() was called on the watchers
\* whose start() tasks the group had created, no watcher that has not ended
\* has _running set, so that its start() returns at its next loop test.
C39_StopNeverLost ==
    orch.stop_requested =>
        \A w \in DOMAIN watchers :
            watchers[w].pc \in TaskDone \/ ~watchers[w].running

\* C31: when the events of the rolling 60-second window exceed
\* max_events_per_minute the rate limiter emits a single notice for that
\* exceedance: an event received while the count was above the limit and
\* stays above it brings no further notice.  (The limiter returns for every
\* event and drops none.)
C31_Step ==
    (/\ limiter'.received = limiter.received + 1
     /\ Len(limiter.event_times) > MaxPerMinute
     /\ Len(limiter'.event_times) > MaxPerMinute)
        => limiter'.notices = limiter.notices

C31_SingleNotice == [][C31_Step]_vars

\* C32: every event delivered to EventLogger.on_event appends exactly one
\* complete newline-terminated record to events.jsonl, earlier records
\* staying as they are: the file holds one record per delivered event, in
\* order of delivery.
C32_OneRecordPerEvent ==
    /\ Len(logger.lines) = Len(logger.delivered)
    /\ \A i \in 1..Len(logger.lines) :
          /\ logger.lines[i].newline
          /\ logger.lines[i].type = logger.delivered[i].type
          /\ logger.lines[i].details = logger.delivered[i].details

\* C36: every event published on a topic of the watchers (anomaly.cpu,
\* anomaly.memory, anomaly.load, anomaly.process_crash,
\* anomaly.process_restart) whose severity is >= min_severity is in the
\* investigation queue, for every min_severity.
C36_PublishedReachQueue ==
    \A i \in 1..Len(logger.delivered) :
        AtLeastMinSeverity(logger.delivered[i])
            => \E j \in 1..Len(investigation_queue) :
                  investigation_queue[j] = logger.delivered[i]

\* C37: add/remove round trip: from an empty store, for every non-empty
\* command x, add(x) with automatic type selection followed by remove(x)
\* returns true and leaves the store empty, so that is_allowed(x) is false
\* afterwards.
C37_Step ==
    \A x \in StoreCommands :
        (/\ ~IsBlank(x)
         /\ lastOp.op = "add"
         /\ lastOp.result = "ok"
         /\ allowlist = AddedCommands(<<>>, x, "auto")
         /\ lastOp'.op = "remove"
         /\ remove_command(x, "ok"))
            => /\ lastOp'.result = "True"
               /\ allowlist' = <<>>
               /\ ~is_allowed(allowlist', x)

C37_AddRemoveRoundTrip == [][C37_Step]_vars

\* a blocked network command is one of the whitespace-separated tokens
HasNetworkToken(command) ==
    \E n \in BLOCKED_NETWORK_COMMANDS, i \in 1..Len(command) :
        /\ OccursAt(command, n, i)
        /\ (i = 1 \/ IsSpace(command[i - 1]))
        /\ (i + Len(n) - 1 = Len(command) \/ IsSpace(command[i + Len(n)]))

\* C38: with READ_ONLY_MODE, ALLOW_NETWORK and REQUIRE_APPROVAL all false,
\* no Bash command with a blocked network command among its tokens is
\* allowed unless the approval callback approved it, also when the first
\* token is a base-allowlisted safe command and the network command follows
\* ';' or '&&'.
C38_NoNetworkWithoutApproval ==
    \A c \in CallIds :
        (/\ ~settings.uatu_read_only
         /\ ~settings.uatu_allow_network
         /\ ~settings.uatu_require_approval
         /\ Done(c) /\ OnBash(c)
         /\ HasNetworkToken(calls[c].command)
         /\ calls[c].decision = "allow")
            => calls[c].invoked /\ calls[c].approved

=============================================================================
